---- MODULE Spec2Model ----
(***************************************************************************)
(* Model of the spreadsheet-to-database sync of                            *)
(* backend/app/services/google_sheets_sync_service.py:                     *)
(*   sync_schedule_data (orchestrator and freshness gate),                 *)
(*   _fetch_with_retry, _sync_employee_mappings (reconciler),              *)
(*   _link_users_to_employee_mappings (linker) and                         *)
(*   _store_schedule_data (cache writer), with their identifier parsing.   *)
(*                                                                         *)
(* Text is modelled as a sequence of characters over a small alphabet      *)
(* that has one member of each character class the code distinguishes.     *)
(***************************************************************************)
EXTENDS Integers, Sequences, FiniteSets, TLC

VARIABLES
  cell,        \* identifier parsing: the raw spreadsheet cell
  parsed,      \* identifier parsing: result of both row parsers on cell
  now,         \* wall clock, minutes
  readerLoaded,\* sheets_import_module.fetch_schedule_data is not None
  syncLogs,    \* SyncLog table: sequence of attempts, index = id
  mappings,    \* EmployeeMapping table: sequence of rows, index = id
  users,       \* User table: sequence of rows, index = userID
  cache,       \* CachedSchedule table: set of rows
  pc,          \* position of the running call
  call,        \* arguments of the running call
  attempt,     \* _fetch_with_retry: loop index
  readerCalls, \* _fetch_with_retry: outcomes of the reader calls made
  sleeps,      \* _fetch_with_retry: delays slept, in order
  fetched,     \* value returned by _fetch_with_retry
  run          \* bookkeeping of the running sync_schedule_data call

vars == <<cell, parsed, now, readerLoaded, syncLogs, mappings, users, cache,
          pc, call, attempt, readerCalls, sleeps, fetched, run>>

None == "None"

\* An absent text (NULL, or no error) is the empty text.
NoText == <<>>

(***************************************************************************)
(* Characters and strings                                                  *)
(***************************************************************************)
\* "E": ASCII upper-case letter, "e": ASCII lower-case letter, "1": ASCII
\* digit, "/": the separator, " ": whitespace, "zw": a zero-width format
\* character (Unicode category Cf; not whitespace, not alphanumeric).
Chars == {"E", "e", "1", "/", " ", "zw"}

MaxLen == 5

RECURSIVE StringsUpTo(_)
StringsUpTo(n) ==
  IF n = 0 THEN {<<>>}
  ELSE LET shorter == StringsUpTo(n - 1)
       IN  shorter \cup {Append(s, c) : s \in {t \in shorter : Len(t) = n - 1}, c \in Chars}

IsSpace(c) == c = " "
IsControl(c) == c = "zw"
IsAlpha(c) == c \in {"E", "e"}
IsDigit(c) == c = "1"
IsAsciiUpper(c) == c = "E"

UpperChar(c) == IF c = "e" THEN "E" ELSE c

\* str.upper()
Upper(s) == [i \in 1..Len(s) |-> UpperChar(s[i])]

RECURSIVE LStrip(_)
LStrip(s) == IF s # <<>> /\ IsSpace(Head(s)) THEN LStrip(Tail(s)) ELSE s

RECURSIVE RStrip(_)
RStrip(s) ==
  IF s # <<>> /\ IsSpace(s[Len(s)]) THEN RStrip(SubSeq(s, 1, Len(s) - 1)) ELSE s

\* str.strip()
Strip(s) == RStrip(LStrip(s))

HasSlash(s) == \E i \in 1..Len(s) : s[i] = "/"

FirstSlash(s) == CHOOSE i \in 1..Len(s) : s[i] = "/" /\ \A j \in 1..(i - 1) : s[j] # "/"

LastSlash(s) == CHOOSE i \in 1..Len(s) : s[i] = "/" /\ \A j \in (i + 1)..Len(s) : s[j] # "/"

\* ''.join(c for c in s if unicodedata.category(c)[0] != 'C' or c in ...):
\* the exempted characters ('/', '-', '_', alphanumerics) are not of category C,
\* so the filter drops exactly the category-C characters.
RemoveControl(s) == SelectSeq(s, LAMBDA c : ~IsControl(c))

\* re.match(r'^[A-Z]\d{2,3}$', s) on a stripped string
MatchesCodePatternMutant(s) ==
  /\ Len(s) = 3
  /\ IsAsciiUpper(s[1])
  /\ \A i \in 2..Len(s) : IsDigit(s[i])

MatchesCodePattern(s) ==
  /\ Len(s) \in {3, 4}
  /\ IsAsciiUpper(s[1])
  /\ \A i \in 2..Len(s) : IsDigit(s[i])

\* len(s) >= 2 and s[0].isalpha() and s[1:].isdigit()
LooksLikeEmployeeId(s) ==
  /\ Len(s) >= 2
  /\ IsAlpha(s[1])
  /\ \A i \in 2..Len(s) : IsDigit(s[i])

ParseFail(full) == [ok |-> FALSE, code |-> <<>>, name |-> <<>>, full |-> full]

\* No cell parsed yet.
NoParsed == [reconciler |-> ParseFail(<<>>), writer |-> ParseFail(<<>>)]

(***************************************************************************)
(* Row parsing of the reconciler (combined name/ID column)                 *)
(***************************************************************************)
\* name_id_str.split('/', 1)
SplitFirst(s) ==
  LET i == FirstSlash(s)
  IN  <<SubSeq(s, 1, i - 1), SubSeq(s, i + 1, Len(s))>>

ReconcilerParse(c) ==
  LET name_id_str == Strip(c)
  IN  IF HasSlash(name_id_str)
      THEN LET parts == SplitFirst(name_id_str)
               emp_name == Strip(parts[1])
               emp_id == Upper(Strip(parts[2]))
           IN  IF MatchesCodePattern(emp_id)
               THEN [ok |-> TRUE, code |-> emp_id, name |-> emp_name, full |-> name_id_str]
               ELSE ParseFail(name_id_str)
      ELSE IF MatchesCodePattern(Upper(name_id_str))
           THEN [ok |-> TRUE, code |-> Upper(name_id_str), name |-> <<>>,
                 full |-> name_id_str]
           ELSE ParseFail(name_id_str)

(***************************************************************************)
(* Row parsing of the cache writer                                         *)
(***************************************************************************)
\* parts = s.split('/'); ('/'.join(parts[:-1]), parts[-1])
SplitLast(s) ==
  LET i == LastSlash(s)
  IN  <<SubSeq(s, 1, i - 1), SubSeq(s, i + 1, Len(s))>>

WriterParse(c) ==
  LET identifier_str == Strip(c)
      identifier_upper == Upper(identifier_str)
      identifier_normalized == Strip(RemoveControl(identifier_str))
  IN  IF HasSlash(identifier_normalized)
      THEN LET parts == SplitLast(identifier_normalized)
               employee_name_from_sheet == Strip(parts[1])
               id_part == Strip(RemoveControl(Upper(Strip(parts[2]))))
           IN  IF LooksLikeEmployeeId(id_part)
               THEN [ok |-> TRUE, code |-> id_part, name |-> employee_name_from_sheet,
                     full |-> identifier_str]
               ELSE [ok |-> FALSE, code |-> <<>>, name |-> employee_name_from_sheet,
                     full |-> identifier_str]
      ELSE LET identifier_clean == Strip(RemoveControl(identifier_upper))
           IN  IF LooksLikeEmployeeId(identifier_clean)
               THEN [ok |-> TRUE, code |-> identifier_clean, name |-> <<>>,
                     full |-> identifier_str]
               ELSE ParseFail(identifier_str)

(***************************************************************************)
(* Reader errors.  An error text is a sequence of words; the words below   *)
(* are the ones whose presence the retry logic tests, in both letter       *)
(* cases, plus one that carries no rate-limit signature.                   *)
(***************************************************************************)
ErrTexts ==
  {<<"429">>, <<"quota">>, <<"Quota">>, <<"rate limit">>, <<"Rate Limit">>,
   <<"timeout">>}

LowerWord(w) ==
  CASE w = "Quota" -> "quota"
    [] w = "Rate Limit" -> "rate limit"
    [] OTHER -> w

\* str.lower()
Lower(text) == [i \in 1..Len(text) |-> LowerWord(text[i])]

\* 'needle' in text
Contains(text, needle) == \E i \in 1..Len(text) : text[i] = needle

\* '429' in str(error) or 'quota' in str(error).lower()
\*   or 'rate limit' in str(error).lower()
IsRateLimitResult(error) ==
  \/ Contains(error, "429")
  \/ Contains(Lower(error), "quota")
  \/ Contains(Lower(error), "rate limit")

\* '429' in error_msg or 'quota' in error_msg.lower()
IsRateLimitException(error_msg) ==
  \/ Contains(error_msg, "429")
  \/ Contains(Lower(error_msg), "quota")

RECURSIVE Pow2(_)
Pow2(n) == IF n = 0 THEN 1 ELSE 2 * Pow2(n - 1)

BackoffDelayMutant(initial_delay, k) == initial_delay

\* delay = initial_delay * (2 ** attempt)
BackoffDelay(initial_delay, k) == initial_delay * Pow2(k)

DefaultMaxRetries == 3
DefaultInitialDelay == 2

MaxRetriesBound == 3
InitialDelays == {1, DefaultInitialDelay}

ErrServiceUnavailable == <<"Google Sheets service not available">>
ErrLoadFailed == <<"Failed to load Google Sheets service after retry">>
ErrExhausted == <<"Failed to fetch after retries">>

\* A sheet that is missing, unsuccessful or without data rows is treated by
\* every phase like an empty one.
EmptyOutput == [columns |-> <<>>, data |-> <<>>]
NoSheets == [roster |-> <<>>, output |-> EmptyOutput]

FetchFailure(error) == [success |-> FALSE, error |-> error, sheets |-> NoSheets]
FetchSuccess(sheets) == [success |-> TRUE, error |-> NoText, sheets |-> sheets]
NoFetch == [success |-> FALSE, error |-> NoText, sheets |-> NoSheets]

\* What one call of the reader does: return a success, return a failure
\* result, or raise.
ReaderOutcomes(payloads, errs) ==
  [kind : {"ok"}, error : {NoText}, sheets : payloads]
    \cup [kind : {"fail", "raise"}, error : errs, sheets : {NoSheets}]

fetchVars == <<attempt, readerCalls, sleeps, fetched>>
dbVars == <<syncLogs, mappings, users, cache>>
parseVars == <<cell, parsed>>

(***************************************************************************)
(* _fetch_with_retry: one iteration of "for attempt in range(max_retries)" *)
(***************************************************************************)
\* current_fetch is None and it cannot be loaded: return without a call.
FetchReaderUnavailable ==
  /\ pc = "fetch"
  /\ attempt < call.max_retries
  /\ ~readerLoaded
  /\ \E e \in {ErrServiceUnavailable, ErrLoadFailed} :
       fetched' = FetchFailure(e)
  /\ pc' = "fetch_done"
  /\ UNCHANGED <<parseVars, now, readerLoaded, dbVars, call, attempt, readerCalls,
                 sleeps, run>>

\* current_fetch is None, the forced reload succeeds: the iteration goes on
\* to the call.
FetchReaderReloaded ==
  /\ pc = "fetch"
  /\ attempt < call.max_retries
  /\ ~readerLoaded
  /\ readerLoaded' = TRUE
  /\ UNCHANGED <<parseVars, now, dbVars, pc, call, fetchVars, run>>

\* The outcome o of the reader call of iteration k leads to sleep-and-continue.
ShouldRetry(o, k, max_retries) ==
  /\ k < max_retries - 1
  /\ \/ o.kind = "fail" /\ IsRateLimitResult(o.error)
     \/ o.kind = "raise" /\ IsRateLimitException(o.error)

FetchReturnMutant(o) ==
  IF o.kind = "ok" THEN FetchSuccess(o.sheets) ELSE FetchFailure(ErrExhausted)

\* The value returned when the outcome o ends the loop.
FetchReturn(o) ==
  IF o.kind = "ok" THEN FetchSuccess(o.sheets) ELSE FetchFailure(o.error)

FetchCallMutant(outcomes) ==
  /\ pc = "fetch"
  /\ readerLoaded
  /\ \E o \in outcomes :
       /\ readerCalls' = Append(readerCalls, o)
       /\ IF ShouldRetry(o, attempt, call.max_retries)
          THEN /\ sleeps' = Append(sleeps, BackoffDelay(call.initial_delay, attempt))
               /\ attempt' = attempt + 1
               /\ UNCHANGED <<fetched, pc>>
          ELSE /\ fetched' = FetchReturn(o)
               /\ pc' = "fetch_done"
               /\ UNCHANGED <<sleeps, attempt>>
  /\ UNCHANGED <<parseVars, now, readerLoaded, dbVars, call, run>>

\* Lines 194-266: one iteration with the reader loaded; the reader returns or
\* raises the outcome o.
FetchCall(outcomes) ==
  /\ pc = "fetch"
  /\ attempt < call.max_retries
  /\ readerLoaded
  /\ \E o \in outcomes :
       /\ readerCalls' = Append(readerCalls, o)
       /\ IF ShouldRetry(o, attempt, call.max_retries)
          THEN /\ sleeps' = Append(sleeps, BackoffDelay(call.initial_delay, attempt))
               /\ attempt' = attempt + 1
               /\ UNCHANGED <<fetched, pc>>
          ELSE /\ fetched' = FetchReturn(o)
               /\ pc' = "fetch_done"
               /\ UNCHANGED <<sleeps, attempt>>
  /\ UNCHANGED <<parseVars, now, readerLoaded, dbVars, call, run>>

\* The loop ends without a return (only when max_retries = 0).
FetchExhausted ==
  /\ pc = "fetch"
  /\ attempt >= call.max_retries
  /\ fetched' = FetchFailure(ErrExhausted)
  /\ pc' = "fetch_done"
  /\ UNCHANGED <<parseVars, now, readerLoaded, dbVars, call, attempt, readerCalls,
                 sleeps, run>>


(***************************************************************************)
(* Tables                                                                  *)
(***************************************************************************)
\* ScheduleDefinition rows: schedule id -> tenant id.  "s0" names no row.
ScheduleTenant == [s1 |-> "t1", s2 |-> "t1"]
Schedules == DOMAIN ScheduleTenant
UnknownSchedule == "s0"

SyncTypes == {"auto", "manual", "scheduled", "on_demand"}

\* userID 0 stands for NULL.
NoUser == 0

\* Smallest index of a set of row indices, 0 if it is empty: Query.first()
\* in insertion order.
FirstIdx(S) == IF S = {} THEN 0 ELSE CHOOSE i \in S : \A j \in S : i <= j

NewMapping(tenant, code, name_id, name, sched, user) ==
  [tenantID |-> tenant, sheets_identifier |-> code, sheets_name_id |-> name_id,
   employee_sheet_name |-> name, schedule_def_id |-> sched, userID |-> user,
   is_active |-> TRUE]

NewUser(tenant, username, employee_id, role) ==
  [tenantID |-> tenant, username |-> username, employee_id |-> employee_id,
   role |-> role, status |-> "active"]

(***************************************************************************)
(* _sync_employee_mappings (reconciler), combined name/ID column           *)
(***************************************************************************)
\* Lines 525-549: the active user whose employee_id, else whose username,
\* equals the code; a user found by username gets a missing employee_id set.
DirectMatch(u, emp_id) ==
  LET by_employee_id == FirstIdx({n \in 1..Len(u) : u[n].employee_id = emp_id
                                                      /\ u[n].status = "active"})
      by_username == FirstIdx({n \in 1..Len(u) : u[n].username = emp_id
                                                   /\ u[n].status = "active"})
  IN  IF by_employee_id # 0 THEN [user |-> by_employee_id, u |-> u]
      ELSE IF by_username # 0
           THEN [user |-> by_username,
                 u |-> IF u[by_username].employee_id = NoText
                       THEN [u EXCEPT ![by_username].employee_id = emp_id]
                       ELSE u]
           ELSE [user |-> NoUser, u |-> u]

\* Lines 551-566: the active mapping of the code in this schedule, else in
\* the tenant.
FindExistingMapping(m, emp_id, sched, tenant) ==
  LET exact == FirstIdx({n \in 1..Len(m) : m[n].sheets_identifier = emp_id
                                             /\ m[n].schedule_def_id = sched
                                             /\ m[n].is_active})
  IN  IF exact # 0 THEN exact
      ELSE FirstIdx({n \in 1..Len(m) : m[n].sheets_identifier = emp_id
                                        /\ m[n].tenantID = tenant /\ m[n].is_active})

UpdateMappingMutant(row, p, sched, linked_user) ==
  [row EXCEPT !.schedule_def_id = sched, !.userID = linked_user, !.is_active = TRUE]

\* Lines 576-612: update of an existing mapping of this schedule.
UpdateMapping(row, p, sched, linked_user) ==
  LET r1 == IF row.schedule_def_id = None THEN [row EXCEPT !.schedule_def_id = sched]
            ELSE row
      r2 == IF linked_user # NoUser /\ r1.userID = NoUser
            THEN [r1 EXCEPT !.userID = linked_user] ELSE r1
      r3 == IF p.full # <<>> /\ r2.sheets_name_id # p.full
            THEN [r2 EXCEPT !.sheets_name_id = p.full] ELSE r2
      r4 == IF p.name # <<>> /\ r3.employee_sheet_name # p.name
            THEN [r3 EXCEPT !.employee_sheet_name = p.name] ELSE r3
  IN  [r4 EXCEPT !.is_active = TRUE]

ReconcileRowMutant(st, c, sched) ==
  IF ~ReconcilerParse(c).ok
  THEN [st EXCEPT !.seen = @ \cup {<<"E", "1", "1">>}]
  ELSE [st EXCEPT !.seen = @ \cup {ReconcilerParse(c).code}]

\* Lines 439-660: one roster row.  st = [m, u, seen].
ReconcileRow(st, c, sched) ==
  LET p == ReconcilerParse(c)
      tenant == ScheduleTenant[sched]
  IN  IF ~p.ok THEN st
      ELSE
        LET dm == DirectMatch(st.u, p.code)
            e == FindExistingMapping(st.m, p.code, sched, tenant)
            m2 ==
              IF e # 0
              THEN IF st.m[e].schedule_def_id = sched \/ st.m[e].schedule_def_id = None
                   THEN [st.m EXCEPT ![e] = UpdateMapping(st.m[e], p, sched, dm.user)]
                   ELSE IF st.m[e].userID = NoUser
                        THEN Append(st.m, NewMapping(tenant, p.code, p.full, p.name,
                                                     sched, NoUser))
                        ELSE st.m
              ELSE Append(st.m, NewMapping(tenant, p.code, p.full, p.name, sched, dm.user))
        IN  [m |-> m2, u |-> dm.u, seen |-> st.seen \cup {Upper(p.code)}]

RECURSIVE ReconcileRows(_, _, _)
ReconcileRows(st, rows, sched) ==
  IF rows = <<>> THEN st
  ELSE ReconcileRows(ReconcileRow(st, Head(rows), sched), Tail(rows), sched)

DeactivateMissingMutant(m, seen, sched) == m

\* Lines 662-681: mappings of the schedule whose code was not seen are set
\* inactive.
DeactivateMissing(m, seen, sched) ==
  [i \in 1..Len(m) |->
     IF m[i].schedule_def_id = sched /\ m[i].is_active
        /\ Upper(m[i].sheets_identifier) \notin seen
     THEN [m[i] EXCEPT !.is_active = FALSE]
     ELSE m[i]]

ReconcileMutant(m, u, roster, sched) ==
  IF roster = <<>> THEN [m |-> m, u |-> u]
  ELSE LET st == ReconcileRows([m |-> m, u |-> u, seen |-> {}], roster, sched)
           Kept(row) == row.is_active
       IN  [m |-> SelectSeq(DeactivateMissing(st.m, st.seen, sched), Kept), u |-> st.u]

\* The whole phase on a roster sheet; roster = <<>> when no sheet with the
\* name/ID column and a data row was fetched.  Result [m, u].
Reconcile(m, u, roster, sched) ==
  IF roster = <<>> THEN [m |-> m, u |-> u]
  ELSE LET st == ReconcileRows([m |-> m, u |-> u, seen |-> {}], roster, sched)
       IN  [m |-> DeactivateMissing(st.m, st.seen, sched), u |-> st.u]

(***************************************************************************)
(* _link_users_to_employee_mappings (linker), auto_create_users = True     *)
(***************************************************************************)
\* Lines 780-844: one unlinked mapping, index i.  st = [m, u].
LinkOne(st, i) ==
  LET mapping == st.m[i]
      emp_id == Upper(Strip(mapping.sheets_identifier))
      found == FirstIdx({n \in 1..Len(st.u) :
                           /\ st.u[n].employee_id = emp_id \/ st.u[n].username = emp_id
                           /\ st.u[n].status = "active"})
      u1 == IF found = 0
            THEN Append(st.u, NewUser(mapping.tenantID, emp_id, emp_id, "employee"))
            ELSE st.u
      user == IF found = 0 THEN Len(u1) ELSE found
      u2 == IF u1[user].employee_id = NoText \/ Upper(u1[user].employee_id) # emp_id
            THEN [u1 EXCEPT ![user].employee_id = emp_id]
            ELSE u1
  IN  [m |-> [st.m EXCEPT ![i].userID = user, ![i].tenantID = u1[user].tenantID],
       u |-> u2]

RECURSIVE LinkAll(_, _)
LinkAll(st, todo) ==
  IF todo = <<>> THEN st ELSE LinkAll(LinkOne(st, Head(todo)), Tail(todo))

\* Lines 772-776: indices of the active mappings of the tenant without a
\* user, ascending.
RECURSIVE UnmappedFrom(_, _, _)
UnmappedFrom(m, tenant, i) ==
  IF i > Len(m) THEN <<>>
  ELSE IF m[i].tenantID = tenant /\ m[i].is_active /\ m[i].userID = NoUser
       THEN <<i>> \o UnmappedFrom(m, tenant, i + 1)
       ELSE UnmappedFrom(m, tenant, i + 1)

Link(m, u, sched) ==
  LinkAll([m |-> m, u |-> u], UnmappedFrom(m, ScheduleTenant[sched], 1))

(***************************************************************************)
(* _store_schedule_data (cache writer)                                     *)
(***************************************************************************)
\* Shift cells are atoms; the two string operations applied to them.
ShiftStrip(v) ==
  CASE v = " " -> ""
    [] v = " N " -> "N"
    [] OTHER -> v
ShiftUpper(v) ==
  CASE v = "null" -> "NULL"
    [] v = "none" -> "NONE"
    [] v = "n" -> "N"
    [] OTHER -> v

IsBlankShiftMutant(v) ==
  \/ v = None
  \/ ShiftStrip(v) = ""
  \/ ShiftStrip(v) \in {"NULL", "NONE"}

\* Lines 1293-1302: None, '', whitespace, 'NULL', 'NONE' in any case.
IsBlankShift(v) ==
  \/ v = None
  \/ ShiftStrip(v) = ""
  \/ ShiftUpper(ShiftStrip(v)) \in {"NULL", "NONE"}

\* Line 1359: the date loop commits after every CommitEvery-th entry of a row
\* when that entry is an OFF entry.
CommitEvery == 10

\* _normalize_shift_type
NormalizeShiftType(v) ==
  LET shift_upper == ShiftStrip(ShiftUpper(v))
  IN  CASE shift_upper \in {"OFF", "NULL", ""} -> "OFF"
        [] shift_upper \in {"C COUNTER"} -> "D"
        [] shift_upper \in {"E", "EVENING"} -> "E"
        [] shift_upper \in {"N", "NIGHT"} -> "N"
        [] OTHER -> "D"

\* _get_time_range
GetTimeRange(shift_type) ==
  CASE shift_type = "D" -> "08:00 - 16:00"
    [] shift_type = "E" -> "16:00 - 00:00"
    [] shift_type = "N" -> "00:00 - 08:00"
    [] OTHER -> "--"

\* _parse_date on a column header: the headers of the model are dates
\* written in the formats %Y-%m-%d and %Y/%m/%d, except "note".  The date
\* is written as %Y-%m-%d.
ParseDate(header) ==
  CASE header = "note" -> None
    [] header = "2025/01/01" -> "2025-01-01"
    [] OTHER -> header

\* The identifier index: a sequence of <<key, userID>> in insertion order
\* (a dict).
HasKey(idx, k) == \E i \in 1..Len(idx) : idx[i][1] = k
Lookup(idx, k) == idx[CHOOSE i \in 1..Len(idx) : idx[i][1] = k][2]
PutIfAbsentMutant(idx, k, v) ==
  IF HasKey(idx, k)
  THEN [i \in 1..Len(idx) |-> IF idx[i][1] = k THEN <<k, v>> ELSE idx[i]]
  ELSE Append(idx, <<k, v>>)
PutIfAbsent(idx, k, v) == IF HasKey(idx, k) THEN idx ELSE Append(idx, <<k, v>>)

\* s.split('/')
RECURSIVE SplitAll(_)
SplitAll(s) ==
  IF ~HasSlash(s) THEN <<s>>
  ELSE LET i == FirstSlash(s)
       IN  <<SubSeq(s, 1, i - 1)>> \o SplitAll(SubSeq(s, i + 1, Len(s)))

RECURSIVE IndexParts(_, _, _)
IndexParts(idx, parts, user) ==
  IF parts = <<>> THEN idx
  ELSE LET part_clean == Upper(Strip(Head(parts)))
       IN  IndexParts(IF LooksLikeEmployeeId(part_clean)
                      THEN PutIfAbsent(idx, part_clean, user) ELSE idx,
                      Tail(parts), user)

\* Lines 917-961: the keys of one linked mapping of the schedule.
IndexMapping(idx, mapping) ==
  IF mapping.userID = NoUser THEN idx
  ELSE LET i1 == PutIfAbsent(idx, Strip(Upper(mapping.sheets_identifier)), mapping.userID)
           full_name_id == Strip(mapping.sheets_name_id)
           i2 == IF full_name_id # <<>> THEN PutIfAbsent(i1, full_name_id, mapping.userID)
                 ELSE i1
       IN  IF HasSlash(mapping.sheets_name_id)
           THEN IndexParts(i2, SplitAll(mapping.sheets_name_id), mapping.userID)
           ELSE i2

\* Lines 969-974 and 978-997: the keys of one user, by employee_id and by
\* username.
IndexUserEmployeeId(idx, user, uid) ==
  IF user.employee_id # NoText /\ user.status = "active"
  THEN PutIfAbsent(idx, Upper(user.employee_id), uid)
  ELSE idx

IndexUserName(idx, user, uid) ==
  IF user.status # "active" \/ user.username = <<>> THEN idx
  ELSE LET username_upper == Upper(Strip(user.username))
       IN  IF user.role = "employee"
           THEN LET i1 == PutIfAbsent(idx, username_upper, uid)
                IN  IF user.employee_id # NoText
                       /\ Upper(Strip(user.employee_id)) # username_upper
                    THEN PutIfAbsent(i1, Upper(Strip(user.employee_id)), uid)
                    ELSE i1
           ELSE IF LooksLikeEmployeeId(username_upper)
                THEN PutIfAbsent(idx, username_upper, uid)
                ELSE idx

RECURSIVE FoldMappings(_, _, _, _)
FoldMappings(idx, m, i, sched) ==
  IF i > Len(m) THEN idx
  ELSE FoldMappings(IF m[i].schedule_def_id = sched /\ m[i].is_active
                    THEN IndexMapping(idx, m[i]) ELSE idx,
                    m, i + 1, sched)

RECURSIVE FoldEmployeeIds(_, _, _)
FoldEmployeeIds(idx, u, i) ==
  IF i > Len(u) THEN idx ELSE FoldEmployeeIds(IndexUserEmployeeId(idx, u[i], i), u, i + 1)

RECURSIVE FoldUserNames(_, _, _)
FoldUserNames(idx, u, i) ==
  IF i > Len(u) THEN idx ELSE FoldUserNames(IndexUserName(idx, u[i], i), u, i + 1)

\* Lines 899-998: first-seen wins over mappings, employee_ids, usernames.
BuildIdentifierIndex(m, u, sched) ==
  FoldUserNames(FoldEmployeeIds(FoldMappings(<<>>, m, 1, sched), u, 1), u, 1)

EndsWith(s, suffix) ==
  /\ Len(s) >= Len(suffix)
  /\ SubSeq(s, Len(s) - Len(suffix) + 1, Len(s)) = suffix

\* Lines 1106-1145: strategies 1 to 3; NoUser when none resolves.
ResolveByIndex(idx, p) ==
  LET identifier_upper == Upper(p.full)
      s3 == FirstIdx({n \in 1..Len(idx) :
                        LET key_upper == Upper(Strip(idx[n][1]))
                        IN  \/ key_upper = p.code
                            \/ /\ HasSlash(key_upper)
                               /\ EndsWith(key_upper, <<"/">> \o p.code)})
  IN  IF p.ok /\ HasKey(idx, p.code) THEN Lookup(idx, p.code)
      ELSE IF HasKey(idx, identifier_upper) THEN Lookup(idx, identifier_upper)
      ELSE IF p.ok /\ s3 # 0 THEN idx[s3][2]
      ELSE NoUser

\* EmployeeMapping.find_by_sheets_identifier(identifier, schedule_def_id)
FindBySheetsIdentifier(m, identifier, sched) ==
  FirstIdx({n \in 1..Len(m) : m[n].sheets_identifier = identifier
                               /\ m[n].schedule_def_id = sched /\ m[n].is_active})

\* CachedSchedule.clear_user_schedule(user_id, schedule_def_id)
ClearUserSchedule(c, user, sched) ==
  {r \in c : ~(r.user_id = user /\ r.schedule_def_id = sched)}

OffEntry(tenant, sched, user, date) ==
  [tenant_id |-> tenant, schedule_def_id |-> sched, user_id |-> user, date |-> date,
   shift_type |-> "OFF", shift_value |-> "OFF", time_range |-> "vacation"]

ScheduleEntryMutant(tenant, sched, user, date, raw) ==
  IF IsBlankShift(raw) THEN OffEntry(tenant, sched, user, date)
  ELSE [tenant_id |-> tenant, schedule_def_id |-> sched, user_id |-> user,
        date |-> date, shift_type |-> NormalizeShiftType(ShiftStrip(raw)),
        shift_value |-> NormalizeShiftType(ShiftStrip(raw)),
        time_range |-> GetTimeRange(NormalizeShiftType(ShiftStrip(raw)))]

\* Lines 1291-1372: the row written for one date cell.
ScheduleEntry(tenant, sched, user, date, raw) ==
  IF IsBlankShift(raw) THEN OffEntry(tenant, sched, user, date)
  ELSE LET shift_value == ShiftStrip(raw)
           shift_type == NormalizeShiftType(shift_value)
       IN  IF shift_value = "OFF" /\ shift_type = "OFF"
           THEN OffEntry(tenant, sched, user, date)
           ELSE [tenant_id |-> tenant, schedule_def_id |-> sched, user_id |-> user,
                 date |-> date, shift_type |-> shift_type, shift_value |-> shift_value,
                 time_range |-> GetTimeRange(shift_type)]

\* Lines 1283-1403: the entries of one resolved row from column i on, in
\* column order, one per column that parses as a date; a cell the row lacks
\* reads as ''.  When the row resolved without a parsed code, line 1382
\* fails on None for every non-OFF entry and the entry is dropped by the
\* handler of line 1399.
RECURSIVE RowEntries(_, _, _, _, _, _, _)
RowEntries(columns, cells, tenant, sched, user, has_code, i) ==
  IF i > Len(columns) THEN <<>>
  ELSE LET rest == RowEntries(columns, cells, tenant, sched, user, has_code, i + 1)
           e == ScheduleEntry(tenant, sched, user, ParseDate(columns[i]),
                              IF i <= Len(cells) THEN cells[i] ELSE "")
       IN  IF ParseDate(columns[i]) = None THEN rest
           ELSE IF has_code \/ (e.shift_value = "OFF" /\ e.shift_type = "OFF")
                THEN <<e>> \o rest
                ELSE rest

MergeEntryMutant(c, e) == c \cup {e}

\* db.session.merge of a CachedSchedule: the row of the same user, schedule
\* and date is overwritten.
MergeEntry(c, e) ==
  {r \in c : ~(r.user_id = e.user_id /\ r.schedule_def_id = e.schedule_def_id
                /\ r.date = e.date)} \cup {e}

RECURSIVE MergeAll(_, _)
MergeAll(c, entries) ==
  IF entries = <<>> THEN c ELSE MergeAll(MergeEntry(c, Head(entries)), Tail(entries))

\* Lines 1176-1225: bookkeeping of a row that resolved to no user.
PendingMapping(m, p, sched) ==
  LET e == FindBySheetsIdentifier(m, p.code, sched)
  IN  IF e # 0
      THEN LET r1 == IF m[e].sheets_name_id # p.full
                     THEN [m[e] EXCEPT !.sheets_name_id = p.full] ELSE m[e]
               r2 == IF p.name # <<>> /\ r1.employee_sheet_name # p.name
                     THEN [r1 EXCEPT !.employee_sheet_name = p.name] ELSE r1
           IN  [m EXCEPT ![e] = r2]
      ELSE Append(m, NewMapping(ScheduleTenant[sched], p.code, p.full, p.name, sched,
                                NoUser))

\* Lines 1346-1361: the cache as committed inside the date loop, after
\* each OFF entry that brings the number of entries merged for the row to a
\* multiple of CommitEvery; c = the cache with the entries before i merged.
RECURSIVE MidCommits(_, _, _)
MidCommits(c, entries, i) ==
  IF i > Len(entries) THEN <<>>
  ELSE IF i % CommitEvery = 0 /\ entries[i].shift_type = "OFF"
            /\ entries[i].shift_value = "OFF"
       THEN <<MergeEntry(c, entries[i])>>
              \o MidCommits(MergeEntry(c, entries[i]), entries, i + 1)
       ELSE MidCommits(MergeEntry(c, entries[i]), entries, i + 1)

\* Lines 1407-1414: the commit of the row fails; the session is rolled back
\* to the last commit and the loop goes on.  mids = MidCommits of the row.
CommitFailed(st, u1, uid, mids, n) ==
  IF mids = <<>>
  THEN [st EXCEPT !.m = st.cm, !.u = st.cu, !.c = st.cc, !.synced = @ \cup {uid},
                  !.rows = @ + n, !.failed = @ + 1]
  ELSE [st EXCEPT !.u = u1, !.c = mids[Len(mids)], !.synced = @ \cup {uid},
                  !.cm = st.m, !.cu = u1, !.cc = mids[Len(mids)],
                  !.rows = @ + n, !.failed = @ + 1, !.points = @ \o mids]

WriteEntriesMutant(st, u1, uid, sched, entries) ==
  IF entries = <<>> \/ ClearUserSchedule(st.c, uid, sched) # st.c
  THEN [st EXCEPT !.u = u1, !.synced = @ \cup {uid},
                  !.c = ClearUserSchedule(st.c, uid, sched)]
  ELSE [st EXCEPT !.u = u1, !.synced = @ \cup {uid},
                  !.c = MergeAll(st.c, entries),
                  !.cm = st.m, !.cu = u1,
                  !.cc = MergeAll(st.c, entries),
                  !.rows = @ + Len(entries)]

\* Lines 1262-1414: the cached rows of user uid are cleared, `entries` are
\* merged and committed; with no entry nothing is committed for the row.
\* The commit fails for the resolved rows whose position is in st.failing.
WriteEntries(st, u1, uid, sched, entries) ==
  IF entries = <<>>
  THEN [st EXCEPT !.u = u1, !.synced = @ \cup {uid},
                  !.c = ClearUserSchedule(st.c, uid, sched)]
  ELSE IF Len(st.resolved) \in st.failing
  THEN CommitFailed(st, u1, uid,
                    MidCommits(ClearUserSchedule(st.c, uid, sched), entries, 1),
                    Len(entries))
  ELSE [st EXCEPT !.u = u1, !.synced = @ \cup {uid},
                  !.c = MergeAll(ClearUserSchedule(st.c, uid, sched), entries),
                  !.cm = st.m, !.cu = u1,
                  !.cc = MergeAll(ClearUserSchedule(st.c, uid, sched), entries),
                  !.rows = @ + Len(entries),
                  !.points = @ \o MidCommits(ClearUserSchedule(st.c, uid, sched),
                                             entries, 1)
                               \o <<MergeAll(ClearUserSchedule(st.c, uid, sched),
                                             entries)>>]

\* Lines 1249-1289: inactive users are skipped; entries are written only for
\* a user of the schedule's tenant.
WriteUser(st, row, columns, p, uid, sched, u1) ==
  IF u1[uid].status # "active" THEN [st EXCEPT !.u = u1, !.synced = @ \cup {uid}]
  ELSE WriteEntries(st, u1, uid, sched,
                    IF u1[uid].tenantID = ScheduleTenant[sched]
                    THEN RowEntries(columns, row.cells, ScheduleTenant[sched], sched,
                                    uid, p.ok, 1)
                    ELSE <<>>)

\* Lines 1232-1414: a row resolved to user uid.  st as in StoreRow.
WriteRow(st, row, columns, p, uid, sched) ==
  WriteUser([st EXCEPT !.resolved = Append(@, [id |-> row.id, cells |-> row.cells,
                                               code |-> p.code, user |-> uid])],
            row, columns, p, uid, sched,
            IF p.ok /\ (st.u[uid].employee_id = NoText
                        \/ Upper(st.u[uid].employee_id) # p.code)
            THEN [st.u EXCEPT ![uid].employee_id = p.code]
            ELSE st.u)

\* Lines 1157-1230: after the direct lookup; direct = the user found (0:
\* none), e = the mapping of the code in the schedule (0: none).
StoreUnresolved(st, row, columns, p, sched, direct, e) ==
  IF direct # 0
  THEN WriteRow([st EXCEPT !.m = IF e # 0 /\ st.m[e].userID = NoUser
                                 THEN [st.m EXCEPT ![e].userID = direct,
                                                   ![e].tenantID = st.u[direct].tenantID]
                                 ELSE st.m],
                row, columns, p, direct, sched)
  ELSE [st EXCEPT !.m = PendingMapping(st.m, p, sched)]

\* Lines 1106-1230: by_index = the user strategies 1 to 3 resolved.
\* direct_lookup_raises: the filter expression of lines 1151-1155 calls
\* .upper() on the mapped attribute User.username; what that does depends on
\* the User model, so both outcomes are kept: it raises, or it queries.
StoreResolved(st, row, columns, sched, direct_lookup_raises, p, by_index) ==
  IF by_index # NoUser THEN WriteRow(st, row, columns, p, by_index, sched)
  ELSE IF ~p.ok THEN st
  ELSE IF direct_lookup_raises THEN [st EXCEPT !.raised = TRUE]
  ELSE StoreUnresolved(st, row, columns, p, sched,
                       FirstIdx({n \in 1..Len(st.u) :
                                   /\ Upper(st.u[n].username) = Upper(p.code)
                                   /\ st.u[n].status = "active"}),
                       FindBySheetsIdentifier(st.m, p.code, sched))

\* Lines 1102-1145: the parsed identifier p is resolved through the index.
StoreParsed(st, row, columns, idx, sched, direct_lookup_raises, p) ==
  StoreResolved(st, row, columns, sched, direct_lookup_raises, p, ResolveByIndex(idx, p))

\* Lines 1048-1429: one row of the final output sheet.
\* st = [m, u, c: session; cm, cu, cc: committed; rows; synced; raised;
\* resolved: the rows that resolved to a user, in order, with the user;
\* failing: the positions in `resolved` of the rows whose commit fails;
\* failed: the commits that failed; points: the cache as it was committed,
\* one element per commit].
StoreRow(st, row, columns, idx, sched, direct_lookup_raises) ==
  IF st.raised \/ row.id = <<>> THEN st
  ELSE StoreParsed(st, row, columns, idx, sched, direct_lookup_raises,
                   WriterParse(row.id))

RECURSIVE StoreRows(_, _, _, _, _, _)
StoreRows(st, rows, columns, idx, sched, direct_lookup_raises) ==
  IF rows = <<>> THEN st
  ELSE StoreRows(StoreRow(st, Head(rows), columns, idx, sched, direct_lookup_raises),
                 Tail(rows), columns, idx, sched, direct_lookup_raises)

\* Lines 1416-1439: on a raise out of the row loop the session keeps its
\* pending changes (nothing rolls them back); a failed final commit rolls
\* back to the last commit and re-raises.  Result [m, u, c, rows, users,
\* raised, resolved].
StoreOutcome(st, final_commit_fails) ==
  IF st.raised
  THEN [m |-> st.m, u |-> st.u, c |-> st.c, rows |-> 0, users |-> 0, raised |-> TRUE,
        resolved |-> st.resolved, points |-> st.points, failed |-> st.failed]
  ELSE IF final_commit_fails
  THEN [m |-> st.cm, u |-> st.cu, c |-> st.cc, rows |-> 0, users |-> 0, raised |-> TRUE,
        resolved |-> st.resolved, points |-> st.points, failed |-> st.failed]
  ELSE [m |-> st.m, u |-> st.u, c |-> st.c, rows |-> st.rows,
        users |-> Cardinality(st.synced), raised |-> FALSE, resolved |-> st.resolved,
        points |-> Append(st.points, st.c), failed |-> st.failed]

\* The whole phase when the commits of the resolved rows at the positions
\* `failing` fail.  output = EmptyOutput when the final output sheet is
\* missing or empty.
StoreFailing(m, u, c, output, sched, direct_lookup_raises, final_commit_fails, failing) ==
  IF output.data = <<>> \/ output.columns = <<>>
  THEN [m |-> m, u |-> u, c |-> c, rows |-> 0, users |-> 0, raised |-> FALSE,
        resolved |-> <<>>, points |-> <<>>, failed |-> 0]
  ELSE StoreOutcome(StoreRows([m |-> m, u |-> u, c |-> c, cm |-> m, cu |-> u, cc |-> c,
                               rows |-> 0, synced |-> {}, raised |-> FALSE,
                               resolved |-> <<>>, failing |-> failing,
                               points |-> <<>>, failed |-> 0],
                              output.data, output.columns,
                              BuildIdentifierIndex(m, u, sched), sched,
                              direct_lookup_raises),
                    final_commit_fails)

\* The whole phase when every commit of a resolved row succeeds.
Store(m, u, c, output, sched, direct_lookup_raises, final_commit_fails) ==
  StoreFailing(m, u, c, output, sched, direct_lookup_raises, final_commit_fails, {})

(***************************************************************************)
(* SyncLog (ledger)                                                        *)
(***************************************************************************)
\* completed_at of an attempt still running.
NotCompleted == 0 - 1

\* SyncLog.create_sync_log
NewSyncLog(sched, sync_type) ==
  [schedule_def_id |-> sched, sync_type |-> sync_type, status |-> "started",
   completed_at |-> NotCompleted, rows_synced |-> 0, users_synced |-> 0,
   error_message |-> NoText]

\* SyncLog.mark_completed: terminal; a no-op on an attempt already completed.
MarkCompleted(log, rows, usersN, error, t) ==
  IF log.status # "started" THEN log
  ELSE [log EXCEPT !.status = IF error = NoText THEN "completed" ELSE "failed",
                   !.completed_at = t, !.rows_synced = rows, !.users_synced = usersN,
                   !.error_message = error]

\* SyncLog.get_last_sync: the most recent completed sync of the schedule, 0
\* if none (attempts are appended in time order).
GetLastSync(logs, sched) ==
  IF \E i \in 1..Len(logs) : logs[i].schedule_def_id = sched /\ logs[i].status = "completed"
  THEN CHOOSE i \in 1..Len(logs) :
         /\ logs[i].schedule_def_id = sched /\ logs[i].status = "completed"
         /\ \A j \in (i + 1)..Len(logs) :
              ~(logs[j].schedule_def_id = sched /\ logs[j].status = "completed")
  ELSE 0

\* SyncLog.should_sync
ShouldSync(logs, sched, min_minutes, t) ==
  LET last == GetLastSync(logs, sched)
  IN  last = 0 \/ t - logs[last].completed_at >= min_minutes


(***************************************************************************)
(* sync_schedule_data (orchestrator)                                       *)
(***************************************************************************)
AutoThresholdMinutes == 5
OtherThresholdMinutes == 10

MinThresholdMutant(sync_type) ==
  IF sync_type = "auto" THEN OtherThresholdMinutes ELSE AutoThresholdMinutes

\* min_threshold = 5 if sync_type == 'auto' else 10
MinThreshold(sync_type) ==
  IF sync_type = "auto" THEN AutoThresholdMinutes ELSE OtherThresholdMinutes

GateAppliesMutant(sync_type, force) == ~force

\* if not force and sync_type != 'on_demand'
GateApplies(sync_type, force) == ~force /\ sync_type # "on_demand"

MaxTime == 10
MaxSyncLogs == 2

ErrNotFound == <<"Schedule definition not found">>
ErrAttribute == <<"AttributeError">>
ErrCommit == <<"commit failed">>

NoCall == [sched |-> None, sync_type |-> None, force |-> FALSE,
           max_retries |-> 0, initial_delay |-> 0]

NoResult == [success |-> FALSE, skipped |-> FALSE, error |-> NoText,
             rows_synced |-> 0, users_synced |-> 0]

\* logId: the attempt created by the call (0: none); markCalls: calls of
\* mark_completed on it; gate: should_sync was consulted; phases: the phases
\* entered, in order; before: the tables when the call started; raised: the
\* exception in flight; returned: the call has returned `result`; rollbacks:
\* the phase commits that failed and were rolled back; repeat: the tables
\* when a phase was run a second time in a row; resolved: the output rows
\* the cache writer resolved to a user, in order; commits: the cache as the
\* cache writer committed it, one element per commit; failed: the commits
\* of single employees that failed in the cache writer.
NoTables == [mappings |-> <<>>, users |-> <<>>, cache |-> {}]

NoRun == [logId |-> 0, markCalls |-> 0, gate |-> FALSE, phases |-> <<>>,
          before |-> NoTables, raised |-> NoText, rows |-> 0, users |-> 0,
          rollbacks |-> 0, repeat |-> NoTables, resolved |-> <<>>,
          commits |-> <<>>, failed |-> 0, result |-> NoResult]

Tables == [mappings |-> mappings, users |-> users, cache |-> cache]

\* Cells of the sheets the reader can return.
CellNameE11 == <<"e", "/", "E", "1", "1">>
CellLowerE11 == <<"e", "/", "e", "1", "1">>
CellBareE111 == <<"E", "1", "1", "1">>
CellTwoSlashes == <<"/", "/", "E", "1", "1">>
CellShortCode == <<"e", "/", "E", "1">>

OutputLowerE11 ==
  [columns |-> <<"2025-01-01">>,
   data |-> <<[id |-> CellLowerE11, cells |-> <<"N">>]>>]

OutputShortCode ==
  [columns |-> <<"2025-01-01">>,
   data |-> <<[id |-> CellShortCode, cells |-> <<"">>],
              [id |-> CellBareE111, cells |-> <<"null">>]>>]

\* The sheets the reader returns under the orchestrator: a roster with its
\* output sheet.
Payloads ==
  {[roster |-> <<CellNameE11, CellTwoSlashes>>, output |-> OutputLowerE11]}

\* The sheets the phases are run on: the above, an output sheet without a
\* roster, and a roster without an output sheet.
SyncPayloads ==
  Payloads \cup
  {[roster |-> <<>>, output |-> OutputShortCode],
   [roster |-> <<CellBareE111>>, output |-> EmptyOutput]}

\* The User rows that exist before the phases run.
UserE1 == NewUser("t1", <<"E", "1">>, NoText, "employee")
InitialUsers == {<<>>, <<UserE1>>}

\* The schedule ids sync_schedule_data is called with.
CalledSchedules == {"s1", UnknownSchedule}

\* The reader behaviours exercised under the orchestrator.
SyncErrTexts == {<<"timeout">>}

SyncCallStart(sched, sync_type, force) ==
  /\ pc = "idle"
  /\ call' = [sched |-> sched, sync_type |-> sync_type, force |-> force,
              max_retries |-> DefaultMaxRetries, initial_delay |-> DefaultInitialDelay]
  /\ IF sched \notin Schedules
     THEN /\ run' = [NoRun EXCEPT !.before = Tables,
                                  !.result = [NoResult EXCEPT !.error = ErrNotFound]]
          /\ pc' = "done"
          /\ UNCHANGED syncLogs
     ELSE IF GateApplies(sync_type, force)
             /\ ~ShouldSync(syncLogs, sched, MinThreshold(sync_type), now)
     THEN /\ run' = [NoRun EXCEPT !.before = Tables, !.gate = TRUE,
                                  !.result = [NoResult EXCEPT !.success = TRUE,
                                                              !.skipped = TRUE]]
          /\ pc' = "done"
          /\ UNCHANGED syncLogs
     ELSE /\ Len(syncLogs) < MaxSyncLogs
          /\ syncLogs' = Append(syncLogs, NewSyncLog(sched, sync_type))
          /\ run' = [NoRun EXCEPT !.before = Tables, !.logId = Len(syncLogs) + 1,
                                  !.gate = GateApplies(sync_type, force)]
          /\ pc' = "fetch"
  /\ attempt' = 0
  /\ readerCalls' = <<>>
  /\ sleeps' = <<>>
  /\ fetched' = NoFetch
  /\ UNCHANGED <<parseVars, now, readerLoaded, mappings, users, cache>>

SyncCall ==
  \E sched \in CalledSchedules, sync_type \in SyncTypes, force \in BOOLEAN :
    SyncCallStart(sched, sync_type, force)

PhaseAfterFetchMutant(success) == "reconcile"

\* Lines 101-111: what follows the fetch.
PhaseAfterFetch(success) == IF success THEN "reconcile" ELSE "fail"

\* Lines 101-107: the fetch failed.
AfterFetchFailure ==
  /\ pc = "fetch_done"
  /\ run.logId # 0
  /\ PhaseAfterFetch(fetched.success) = "fail"
  /\ syncLogs' = [syncLogs EXCEPT ![run.logId] = MarkCompleted(@, 0, 0, fetched.error, now)]
  /\ run' = [run EXCEPT !.markCalls = @ + 1,
                        !.result = [NoResult EXCEPT !.error = fetched.error]]
  /\ pc' = "done"
  /\ UNCHANGED <<parseVars, now, readerLoaded, mappings, users, cache, call, fetchVars>>

\* The unique index ix_employee_mappings_userID: no two mappings carry the
\* same userID; a flush or commit that would break it raises.
UniqueUserIDs(m) ==
  \A i, j \in 1..Len(m) : i # j /\ m[i].userID # NoUser => m[i].userID # m[j].userID

CommitOrRollbackMutant(r, commit_ok, phase) ==
  /\ mappings' = mappings
  /\ users' = users
  /\ run' = [run EXCEPT !.phases = Append(@, phase),
                        !.rollbacks = IF commit_ok THEN @ ELSE @ + 1]

\* The session after a phase that computed r = [m, u]: committed, or rolled
\* back when the commit fails (lines 683-737, 846-859): for a reason of its
\* own (commit_ok is false) or on the unique index.
CommitOrRollback(r, commit_ok, phase) ==
  /\ mappings' = IF commit_ok /\ UniqueUserIDs(r.m) THEN r.m ELSE mappings
  /\ users' = IF commit_ok /\ UniqueUserIDs(r.m) THEN r.u ELSE users
  /\ run' = [run EXCEPT !.phases = Append(@, phase),
                        !.rollbacks = IF commit_ok /\ UniqueUserIDs(r.m)
                                      THEN @ ELSE @ + 1]

\* Lines 109-112 with 683-739: the reconciler; a failed commit is rolled
\* back and swallowed.
ReconcileStep ==
  /\ pc = "fetch_done"
  /\ run.logId # 0
  /\ PhaseAfterFetch(fetched.success) = "reconcile"
  /\ \E commit_ok \in BOOLEAN :
       CommitOrRollback(Reconcile(mappings, users, fetched.sheets.roster, call.sched),
                        commit_ok, "reconcile")
  /\ pc' = "reconciled"
  /\ UNCHANGED <<parseVars, now, readerLoaded, syncLogs, cache, call, fetchVars>>

\* Lines 114-117 with 846-859: the linker; a failed commit is rolled back
\* and swallowed.
LinkStep ==
  /\ pc = "reconciled"
  /\ \E commit_ok \in BOOLEAN :
       CommitOrRollback(Link(mappings, users, call.sched), commit_ok, "link")
  /\ pc' = "linked"
  /\ UNCHANGED <<parseVars, now, readerLoaded, syncLogs, cache, call, fetchVars>>

\* Lines 119-121 and 147: the outcome r of the cache writer; an exception
\* goes to the handler.
AfterStore(r, error) ==
  /\ mappings' = r.m
  /\ users' = r.u
  /\ cache' = r.c
  /\ run' = [run EXCEPT !.phases = Append(@, "store"), !.rows = r.rows,
                        !.users = r.users, !.resolved = r.resolved,
                        !.commits = r.points, !.failed = r.failed,
                        !.raised = IF r.raised THEN error ELSE NoText]
  /\ pc' = IF r.raised THEN "except" ELSE "stored"

\* Lines 119-121: the cache writer; it may raise.
StoreStep ==
  /\ pc = "linked"
  /\ \E direct_lookup_raises \in BOOLEAN, final_commit_fails \in BOOLEAN :
       AfterStore(Store(mappings, users, cache, fetched.sheets.output, call.sched,
                        direct_lookup_raises, final_commit_fails),
                  IF final_commit_fails /\ ~direct_lookup_raises
                  THEN ErrCommit ELSE ErrAttribute)
  /\ UNCHANGED <<parseVars, now, readerLoaded, syncLogs, call, fetchVars>>

\* Lines 123-145: mark_completed, then the final commit, which may raise.
CompleteStep ==
  /\ pc = "stored"
  /\ syncLogs' = [syncLogs EXCEPT
                    ![run.logId] = MarkCompleted(@, run.rows, run.users, NoText, now)]
  /\ \E commit_fails \in BOOLEAN :
       IF commit_fails
       THEN /\ run' = [run EXCEPT !.markCalls = @ + 1, !.raised = ErrCommit]
            /\ pc' = "except"
       ELSE /\ run' = [run EXCEPT !.markCalls = @ + 1,
                                  !.result = [NoResult EXCEPT !.success = TRUE,
                                                              !.rows_synced = run.rows,
                                                              !.users_synced = run.users]]
            /\ pc' = "done"
  /\ UNCHANGED <<parseVars, now, readerLoaded, mappings, users, cache, call, fetchVars>>

\* Lines 147-179: the handler of any exception raised inside the try.
ExceptStep ==
  /\ pc = "except"
  /\ syncLogs' = [syncLogs EXCEPT
                    ![run.logId] = MarkCompleted(@, 0, 0, run.raised, now)]
  /\ run' = [run EXCEPT !.markCalls = @ + 1,
                        !.result = [NoResult EXCEPT !.error = run.raised]]
  /\ pc' = "done"
  /\ UNCHANGED <<parseVars, now, readerLoaded, mappings, users, cache, call, fetchVars>>

\* The call has returned; the next one may start.
Return ==
  /\ pc = "done"
  /\ pc' = "idle"
  /\ call' = NoCall
  /\ run' = NoRun
  /\ attempt' = 0
  /\ readerCalls' = <<>>
  /\ sleeps' = <<>>
  /\ fetched' = NoFetch
  /\ UNCHANGED <<parseVars, now, readerLoaded, dbVars>>

\* Time passes between calls.  Only differences of times are observed, so
\* the clock starts with the first attempt.
Tick ==
  /\ pc = "idle"
  /\ syncLogs # <<>>
  /\ now < MaxTime
  /\ now' = now + 1
  /\ UNCHANGED <<parseVars, readerLoaded, dbVars, pc, call, fetchVars, run>>

Init ==
  /\ cell = <<>>
  /\ parsed = NoParsed
  /\ now = 0
  /\ readerLoaded \in BOOLEAN
  /\ syncLogs = <<>>
  /\ mappings = <<>>
  /\ users = <<>>
  /\ cache = {}
  /\ pc = "idle"
  /\ call = NoCall
  /\ attempt = 0
  /\ readerCalls = <<>>
  /\ sleeps = <<>>
  /\ fetched = NoFetch
  /\ run = NoRun

Next ==
  \/ Tick
  \/ SyncCall
  \/ FetchReaderUnavailable
  \/ FetchReaderReloaded
  \/ FetchCall(ReaderOutcomes(Payloads, SyncErrTexts))
  \/ AfterFetchFailure
  \/ ReconcileStep
  \/ LinkStep
  \/ StoreStep
  \/ CompleteStep
  \/ ExceptStep
  \/ Return

Spec == Init /\ [][Next]_vars

(***************************************************************************)
(* _fetch_with_retry on its own, for every max_retries and initial_delay   *)
(***************************************************************************)
InitFetch ==
  /\ cell = <<>>
  /\ parsed = NoParsed
  /\ now = 0
  /\ readerLoaded \in BOOLEAN
  /\ syncLogs = <<>>
  /\ mappings = <<>>
  /\ users = <<>>
  /\ cache = {}
  /\ pc = "fetch"
  /\ call \in [sched : {"s1"}, sync_type : {"auto"}, force : {FALSE},
               max_retries : 0..MaxRetriesBound, initial_delay : InitialDelays]
  /\ attempt = 0
  /\ readerCalls = <<>>
  /\ sleeps = <<>>
  /\ fetched = NoFetch
  /\ run = NoRun

NextFetch ==
  \/ FetchReaderUnavailable
  \/ FetchReaderReloaded
  \/ FetchCall(ReaderOutcomes({NoSheets}, ErrTexts))
  \/ FetchExhausted

SpecFetch == InitFetch /\ [][NextFetch]_vars

\* The call is not suspended for ever: every reader call and every sleep of
\* line 248 or 260 ends, so an iteration that can be taken is taken.
SpecFetchFair == SpecFetch /\ WF_vars(NextFetch)

(***************************************************************************)
(* The phases after a successful fetch, on every sheet of SyncPayloads and *)
(* every initial User table                                                *)
(***************************************************************************)
InitSync ==
  /\ cell = <<>>
  /\ parsed = NoParsed
  /\ now = 0
  /\ readerLoaded = TRUE
  /\ syncLogs = <<NewSyncLog("s1", "manual")>>
  /\ mappings = <<>>
  /\ users \in InitialUsers
  /\ cache = {}
  /\ pc = "fetch_done"
  /\ call = [sched |-> "s1", sync_type |-> "manual", force |-> FALSE,
             max_retries |-> DefaultMaxRetries, initial_delay |-> DefaultInitialDelay]
  /\ attempt = 0
  /\ readerCalls = <<>>
  /\ sleeps = <<>>
  /\ fetched \in {FetchSuccess(p) : p \in SyncPayloads}
  /\ run = [NoRun EXCEPT !.logId = 1, !.gate = TRUE,
                         !.before = [NoTables EXCEPT !.users = users]]

\* A forced call on the tables the previous call left.
SyncAgain ==
  /\ pc = "done"
  /\ Len(syncLogs) < MaxSyncLogs
  /\ syncLogs' = Append(syncLogs, NewSyncLog("s1", "manual"))
  /\ run' = [NoRun EXCEPT !.logId = Len(syncLogs) + 1, !.before = Tables]
  /\ call' = [call EXCEPT !.force = TRUE]
  /\ \E p \in SyncPayloads : fetched' = FetchSuccess(p)
  /\ pc' = "fetch_done"
  /\ UNCHANGED <<parseVars, now, readerLoaded, mappings, users, cache, attempt,
                 readerCalls, sleeps>>

NextSync ==
  \/ ReconcileStep
  \/ LinkStep
  \/ StoreStep
  \/ CompleteStep
  \/ ExceptStep
  \/ SyncAgain

SpecSync == InitSync /\ [][NextSync]_vars

(***************************************************************************)
(* Sequential sync runs over the two schedules of the tenant, on tables an *)
(* earlier sync or a registration left                                     *)
(***************************************************************************)
MaxRuns == 3

CellUpperNameE11 == <<"E", "/", "E", "1", "1">>

\* Rosters: one code; the same code in two rows under two names; another
\* code; both codes.
Rosters ==
  {<<CellNameE11>>, <<CellNameE11, CellUpperNameE11>>, <<CellBareE111>>,
   <<CellNameE11, CellBareE111>>}

\* Every roster without an output sheet, and one roster with its output
\* sheet.
RunPayloads ==
  {[roster |-> r, output |-> EmptyOutput] : r \in Rosters}
    \cup {[roster |-> <<CellNameE11>>, output |-> OutputLowerE11]}

UserE11 == NewUser("t1", <<"E", "1", "1">>, NoText, "employee")
UserNamedE == NewUser("t1", <<"e">>, <<"E", "1", "1", "1">>, "manager")

\* The tables before the first run: empty; an active user; an active user
\* whose code has an unlinked mapping in schedule s2 (the mapping of a sync
\* whose linker was rolled back; the user became active afterwards); a
\* mapping of schedule s1 linked to a manager whose employee_id was the code
\* when the reconciler linked it and has been changed since.
RunTables ==
  {[mappings |-> <<>>, users |-> <<>>, cache |-> {}],
   [mappings |-> <<>>, users |-> <<UserE11>>, cache |-> {}],
   [mappings |-> <<NewMapping("t1", <<"E", "1", "1">>, CellNameE11, <<"e">>, "s2",
                              NoUser)>>,
    users |-> <<UserE11>>, cache |-> {}],
   [mappings |-> <<NewMapping("t1", <<"E", "1", "1">>, CellNameE11, <<"e">>, "s1", 1)>>,
    users |-> <<UserNamedE>>, cache |-> {}]}

InitRuns ==
  /\ cell = <<>>
  /\ parsed = NoParsed
  /\ now = 0
  /\ readerLoaded = TRUE
  /\ \E t \in RunTables : mappings = t.mappings /\ users = t.users /\ cache = t.cache
  /\ pc = "fetch_done"
  /\ call \in [sched : Schedules, sync_type : {"manual"}, force : {TRUE},
               max_retries : {DefaultMaxRetries}, initial_delay : {DefaultInitialDelay}]
  /\ syncLogs = <<NewSyncLog(call.sched, "manual")>>
  /\ attempt = 0
  /\ readerCalls = <<>>
  /\ sleeps = <<>>
  /\ fetched \in {FetchSuccess(p) : p \in RunPayloads}
  /\ run = [NoRun EXCEPT !.logId = 1, !.before = Tables]

\* The tables after the phase was run once more.
RepeatOutcome(r) ==
  /\ mappings' = IF UniqueUserIDs(r.m) THEN r.m ELSE mappings
  /\ users' = IF UniqueUserIDs(r.m) THEN r.u ELSE users
  /\ run' = [run EXCEPT !.repeat = Tables, !.phases = Append(@, "reconcile")]

\* _sync_employee_mappings run a second time on the same roster, right
\* after a run that committed.
ReconcileRepeat ==
  /\ pc = "reconciled"
  /\ run.phases = <<"reconcile">>
  /\ run.rollbacks = 0
  /\ RepeatOutcome(Reconcile(mappings, users, fetched.sheets.roster, call.sched))
  /\ UNCHANGED <<parseVars, now, readerLoaded, syncLogs, cache, pc, call, fetchVars>>

\* The next forced call, for either schedule, on the tables the previous
\* call left.
NextRun ==
  /\ pc = "done"
  /\ Len(syncLogs) < MaxRuns
  /\ \E sched \in Schedules :
       /\ syncLogs' = Append(syncLogs, NewSyncLog(sched, "manual"))
       /\ call' = [call EXCEPT !.sched = sched]
  /\ run' = [NoRun EXCEPT !.logId = Len(syncLogs) + 1, !.before = Tables]
  /\ \E p \in RunPayloads : fetched' = FetchSuccess(p)
  /\ pc' = "fetch_done"
  /\ UNCHANGED <<parseVars, now, readerLoaded, mappings, users, cache, attempt,
                 readerCalls, sleeps>>

NextRuns ==
  \/ ReconcileStep
  \/ ReconcileRepeat
  \/ LinkStep
  \/ StoreStep
  \/ CompleteStep
  \/ ExceptStep
  \/ NextRun

SpecRuns == InitRuns /\ [][NextRuns]_vars

(***************************************************************************)
(* The cache writer on output sheets of several date columns, over runs of *)
(* schedule s1                                                             *)
(***************************************************************************)
MaxStoreRuns == 2

\* A header that is no date, two headers of one date, and a second date;
\* the second row is one cell short.
OutputTwoHeaders ==
  [columns |-> <<"note", "2025-01-01", "2025/01/01", "2025-01-02">>,
   data |-> <<[id |-> CellLowerE11, cells |-> <<"x", "", "N", " ">>],
              [id |-> CellBareE111, cells |-> <<"x", "N", "none">>]>>]

\* The same employee in two rows.
OutputTwice ==
  [columns |-> <<"2025-01-01">>,
   data |-> <<[id |-> CellLowerE11, cells |-> <<"E">>],
              [id |-> <<"E", "1", "1">>, cells |-> <<"NULL">>]>>]

\* A row identified by a username that is no code.
OutputByName ==
  [columns |-> <<"2025-01-01", "2025-01-02">>,
   data |-> <<[id |-> <<"e">>, cells |-> <<"N", "">>]>>]

\* Cells with surrounding blanks and in lower case.
OutputPadded ==
  [columns |-> <<"2025-01-01", "2025-01-02">>,
   data |-> <<[id |-> CellLowerE11, cells |-> <<" N ", "n">>]>>]

StorePayloads ==
  {[roster |-> <<CellNameE11, CellBareE111>>, output |-> OutputTwoHeaders],
   [roster |-> <<CellNameE11>>, output |-> OutputLowerE11],
   [roster |-> <<CellNameE11>>, output |-> OutputTwice],
   [roster |-> <<CellNameE11>>, output |-> OutputPadded],
   [roster |-> <<>>, output |-> OutputByName]}

\* An employee registered by an administrator under an identifier that is
\* no code (username = employee_id = the identifier, upper case); an
\* employee registered under a name before employee_id existed, whose
\* employee_id was then copied from the linked mapping; a deactivated
\* employee.
UserByName == NewUser("t1", <<"E">>, <<"E">>, "employee")
UserOldName == NewUser("t1", <<"e">>, <<"E", "1", "1">>, "employee")
UserInactiveE11 ==
  [NewUser("t1", <<"E", "1", "1">>, <<"E", "1", "1">>, "employee")
     EXCEPT !.status = "inactive"]

\* The tables before the first run: empty; the employee registered by
\* identifier; the employee registered by name and the deactivated
\* employee, each with the mapping an earlier sync linked.
StoreTables ==
  {[mappings |-> <<>>, users |-> <<>>, cache |-> {}],
   [mappings |-> <<>>, users |-> <<UserByName>>, cache |-> {}],
   [mappings |-> <<NewMapping("t1", <<"E", "1", "1">>, CellNameE11, <<"e">>, "s1", 1)>>,
    users |-> <<UserOldName>>, cache |-> {}],
   [mappings |-> <<NewMapping("t1", <<"E", "1", "1">>, CellNameE11, <<"e">>, "s1", 1)>>,
    users |-> <<UserInactiveE11>>, cache |-> {}]}

InitStore ==
  /\ cell = <<>>
  /\ parsed = NoParsed
  /\ now = 0
  /\ readerLoaded = TRUE
  /\ \E t \in StoreTables : mappings = t.mappings /\ users = t.users /\ cache = t.cache
  /\ pc = "fetch_done"
  /\ call = [sched |-> "s1", sync_type |-> "manual", force |-> TRUE,
             max_retries |-> DefaultMaxRetries, initial_delay |-> DefaultInitialDelay]
  /\ syncLogs = <<NewSyncLog("s1", "manual")>>
  /\ attempt = 0
  /\ readerCalls = <<>>
  /\ sleeps = <<>>
  /\ fetched \in {FetchSuccess(p) : p \in StorePayloads}
  /\ run = [NoRun EXCEPT !.logId = 1, !.before = Tables]

\* The outcome r of the cache writer run once more: as AfterStore, with the
\* tables before it kept.
AfterRepeat(r, error) ==
  /\ mappings' = r.m
  /\ users' = r.u
  /\ cache' = r.c
  /\ run' = [run EXCEPT !.phases = Append(@, "store"), !.rows = r.rows,
                        !.users = r.users, !.resolved = r.resolved,
                        !.commits = r.points, !.failed = r.failed,
                        !.repeat = Tables,
                        !.raised = IF r.raised THEN error ELSE NoText]
  /\ pc' = IF r.raised THEN "except" ELSE "stored"

\* _store_schedule_data run a second time on the same output sheet, right
\* after a run that returned.
StoreRepeat ==
  /\ pc = "stored"
  /\ run.phases = <<"reconcile", "link", "store">>
  /\ \E direct_lookup_raises \in BOOLEAN, final_commit_fails \in BOOLEAN :
       AfterRepeat(Store(mappings, users, cache, fetched.sheets.output, call.sched,
                         direct_lookup_raises, final_commit_fails),
                   IF final_commit_fails /\ ~direct_lookup_raises
                   THEN ErrCommit ELSE ErrAttribute)
  /\ UNCHANGED <<parseVars, now, readerLoaded, syncLogs, call, fetchVars>>

\* The next forced call for the schedule, on the tables the previous call
\* left.
NextStoreRun ==
  /\ pc = "done"
  /\ Len(syncLogs) < MaxStoreRuns
  /\ syncLogs' = Append(syncLogs, NewSyncLog("s1", "manual"))
  /\ run' = [NoRun EXCEPT !.logId = Len(syncLogs) + 1, !.before = Tables]
  /\ \E p \in StorePayloads : fetched' = FetchSuccess(p)
  /\ pc' = "fetch_done"
  /\ UNCHANGED <<parseVars, now, readerLoaded, mappings, users, cache, call, attempt,
                 readerCalls, sleeps>>

NextStore ==
  \/ ReconcileStep
  \/ LinkStep
  \/ StoreStep
  \/ StoreRepeat
  \/ CompleteStep
  \/ ExceptStep
  \/ NextStoreRun

SpecStore == InitStore /\ [][NextStore]_vars

(***************************************************************************)
(* The phases when a roster row or the commit of an employee fails         *)
(***************************************************************************)
\* Lines 618-660 with 662-737: the reconciler when the creation of the
\* mapping of roster row k fails: the handler rolls the session back, which
\* drops the pending changes of the rows before k, and the loop goes on with
\* the rows after k; the code of row k was noted at line 523.
ReconcileFailingAt(m, u, roster, sched, k) ==
  LET done == ReconcileRows([m |-> m, u |-> u, seen |-> {}],
                            SubSeq(roster, 1, k - 1), sched)
      st == ReconcileRows([m |-> m, u |-> u,
                           seen |-> done.seen
                                      \cup {Upper(ReconcilerParse(roster[k]).code)}],
                          SubSeq(roster, k + 1, Len(roster)), sched)
  IN  [m |-> DeactivateMissing(st.m, st.seen, sched), u |-> st.u]

\* Roster row k creates a mapping (lines 618-629, 638-648).
CreatesMapping(m, u, roster, sched, k) ==
  Len(ReconcileRows([m |-> m, u |-> u, seen |-> {}], SubSeq(roster, 1, k), sched).m)
    > Len(ReconcileRows([m |-> m, u |-> u, seen |-> {}],
                        SubSeq(roster, 1, k - 1), sched).m)

\* Lines 109-112 with 632-635 and 655-660: the reconciler when the creation
\* of one mapping fails; the commit at the end succeeds.
ReconcileRowFails ==
  /\ pc = "fetch_done"
  /\ run.logId # 0
  /\ PhaseAfterFetch(fetched.success) = "reconcile"
  /\ \E k \in 1..Len(fetched.sheets.roster) :
       /\ CreatesMapping(mappings, users, fetched.sheets.roster, call.sched, k)
       /\ CommitOrRollback(ReconcileFailingAt(mappings, users, fetched.sheets.roster,
                                              call.sched, k),
                           TRUE, "reconcile")
  /\ pc' = "reconciled"
  /\ UNCHANGED <<parseVars, now, readerLoaded, syncLogs, cache, call, fetchVars>>

\* Lines 119-121 with 1407-1414: the cache writer when the commit of some
\* employees fails; the final commit succeeds.
StoreCommitFails ==
  /\ pc = "linked"
  /\ \E failing \in SUBSET (1..Len(fetched.sheets.output.data)) :
       /\ failing # {}
       /\ AfterStore(StoreFailing(mappings, users, cache, fetched.sheets.output,
                                  call.sched, FALSE, FALSE, failing),
                     ErrCommit)
  /\ UNCHANGED <<parseVars, now, readerLoaded, syncLogs, call, fetchVars>>

\* Eleven date columns; the first ten cells of the row are blank.
OutputLong ==
  [columns |-> <<"2025-01-01", "2025-01-02", "2025-01-03", "2025-01-04",
                 "2025-01-05", "2025-01-06", "2025-01-07", "2025-01-08",
                 "2025-01-09", "2025-01-10", "2025-01-11">>,
   data |-> <<[id |-> CellLowerE11,
               cells |-> <<"", "", "", "", "", "", "", "", "", "", "N">>]>>]

FailPayloads ==
  {[roster |-> <<CellNameE11, CellBareE111>>, output |-> OutputTwoHeaders],
   [roster |-> <<CellNameE11>>, output |-> OutputLong]}

InitFail ==
  /\ cell = <<>>
  /\ parsed = NoParsed
  /\ now = 0
  /\ readerLoaded = TRUE
  /\ \E t \in StoreTables : mappings = t.mappings /\ users = t.users /\ cache = t.cache
  /\ pc = "fetch_done"
  /\ call = [sched |-> "s1", sync_type |-> "manual", force |-> TRUE,
             max_retries |-> DefaultMaxRetries, initial_delay |-> DefaultInitialDelay]
  /\ syncLogs = <<NewSyncLog("s1", "manual")>>
  /\ attempt = 0
  /\ readerCalls = <<>>
  /\ sleeps = <<>>
  /\ fetched \in {FetchSuccess(p) : p \in FailPayloads}
  /\ run = [NoRun EXCEPT !.logId = 1, !.before = Tables]

\* The next forced call for the schedule, on the tables the previous call
\* left.
NextFailRun ==
  /\ pc = "done"
  /\ Len(syncLogs) < MaxStoreRuns
  /\ syncLogs' = Append(syncLogs, NewSyncLog("s1", "manual"))
  /\ run' = [NoRun EXCEPT !.logId = Len(syncLogs) + 1, !.before = Tables]
  /\ \E p \in FailPayloads : fetched' = FetchSuccess(p)
  /\ pc' = "fetch_done"
  /\ UNCHANGED <<parseVars, now, readerLoaded, mappings, users, cache, call, attempt,
                 readerCalls, sleeps>>

NextFail ==
  \/ ReconcileStep
  \/ ReconcileRowFails
  \/ LinkStep
  \/ StoreStep
  \/ StoreCommitFails
  \/ CompleteStep
  \/ ExceptStep
  \/ NextFailRun

SpecFail == InitFail /\ [][NextFail]_vars

(***************************************************************************)
(* ensure_data_synced (sync_guard.py)                                      *)
(***************************************************************************)
ErrUserNotFound == <<"User not found">>
ErrNoActiveSchedule == <<"No active schedule definition">>
ErrLookup == <<"lookup failed">>
ErrSync == <<"sync failed">>
ErrUnknown == <<"Unknown error">>

\* Lines 53-59 and 242-248: the status returned without a sync and without
\* the cache.
ErrorStatus(error) ==
  [synced |-> FALSE, used_cache |-> FALSE, last_synced_at |-> NotCompleted,
   has_result |-> FALSE, sync_result |-> NoResult, error |-> error]

\* Lines 71-96: the schedule the call is about; None when the tenant of the
\* user has no active schedule or the given id is unknown.
GuardSchedule(user, sched) ==
  IF sched = None
  THEN IF \E d \in Schedules : ScheduleTenant[d] = user.tenantID
       THEN CHOOSE d \in Schedules :
              /\ ScheduleTenant[d] = user.tenantID
              /\ \A d2 \in Schedules : ScheduleTenant[d2] = user.tenantID => d = d2 \/ d = "s1"
       ELSE None
  ELSE IF sched \in Schedules THEN sched ELSE None

\* Lines 105-106 and 166-167: completed_at of the last completed sync of
\* the schedule, NotCompleted if there is none.
LastSyncedAt(logs, sched) ==
  IF GetLastSync(logs, sched) = 0 THEN NotCompleted
  ELSE logs[GetLastSync(logs, sched)].completed_at

NeedsSyncMutant(cached, force_check, last_synced_at, max_age, t) ==
  \/ ~cached
  \/ last_synced_at = NotCompleted
  \/ t - last_synced_at > max_age

\* Lines 108-140: a sync is needed.
NeedsSync(cached, force_check, last_synced_at, max_age, t) ==
  \/ ~cached
  \/ force_check
  \/ last_synced_at = NotCompleted
  \/ t - last_synced_at > max_age

\* sync_schedule_data(sched, sync_type, force=force) as the guard sees it,
\* for a schedule that exists: the gate of lines 66-84, then an attempt
\* whose outcome is "stored" (completed, rows cached for the user),
\* "completed" (completed, no row for the user), "failed" (failure result,
\* which always carries an error text) or "raised" (an exception leaves the call
\* before an attempt is recorded).  Result [logs, c, result, raised, reads].
GuardSync(logs, c, sched, sync_type, force, user_id, t, outcome) ==
  IF GateApplies(sync_type, force) /\ ~ShouldSync(logs, sched, MinThreshold(sync_type), t)
  THEN [logs |-> logs, c |-> c, raised |-> FALSE, reads |-> 0,
        result |-> [NoResult EXCEPT !.success = TRUE, !.skipped = TRUE]]
  ELSE CASE outcome = "raised" ->
              [logs |-> logs, c |-> c, raised |-> TRUE, reads |-> 0, result |-> NoResult]
         [] outcome = "failed" ->
              [logs |-> Append(logs, MarkCompleted(NewSyncLog(sched, sync_type), 0, 0,
                                                   ErrSync, t)),
               c |-> c, raised |-> FALSE, reads |-> 1,
               result |-> [NoResult EXCEPT !.error = ErrSync]]
         [] outcome = "stored" ->
              [logs |-> Append(logs, MarkCompleted(NewSyncLog(sched, sync_type), 1, 1,
                                                   NoText, t)),
               c |-> MergeEntry(ClearUserSchedule(c, user_id, sched),
                                OffEntry(ScheduleTenant[sched], sched, user_id,
                                         "2025-01-01")),
               raised |-> FALSE, reads |-> 1,
               result |-> [NoResult EXCEPT !.success = TRUE, !.rows_synced = 1,
                                           !.users_synced = 1]]
         [] OTHER ->
              [logs |-> Append(logs, MarkCompleted(NewSyncLog(sched, sync_type), 0, 0,
                                                   NoText, t)),
               c |-> c, raised |-> FALSE, reads |-> 1,
               result |-> [NoResult EXCEPT !.success = TRUE]]

GuardTriggeredMutant(r, cached, last_synced_at, sched, ledger_raises) ==
  IF r.raised \/ (r.result.success /\ ledger_raises)
  THEN [ErrorStatus(IF r.raised THEN ErrSync ELSE ErrLookup)
          EXCEPT !.last_synced_at = last_synced_at]
  ELSE IF r.result.success
  THEN [synced |-> TRUE, used_cache |-> FALSE,
        last_synced_at |-> LastSyncedAt(r.logs, sched), has_result |-> TRUE,
        sync_result |-> r.result, error |-> NoText]
  ELSE [synced |-> FALSE, used_cache |-> FALSE,
        last_synced_at |-> last_synced_at, has_result |-> TRUE,
        sync_result |-> r.result,
        error |-> IF r.result.error = NoText THEN ErrUnknown ELSE r.result.error]

\* Lines 142-227: the sync is triggered; r = what sync_schedule_data did.
GuardTriggered(r, cached, last_synced_at, sched, ledger_raises) ==
  IF r.raised \/ (r.result.success /\ ledger_raises)
  THEN [synced |-> FALSE, used_cache |-> cached /\ last_synced_at # NotCompleted,
        last_synced_at |-> last_synced_at, has_result |-> FALSE,
        sync_result |-> NoResult, error |-> IF r.raised THEN ErrSync ELSE ErrLookup]
  ELSE IF r.result.success
  THEN [synced |-> TRUE, used_cache |-> FALSE,
        last_synced_at |-> LastSyncedAt(r.logs, sched), has_result |-> TRUE,
        sync_result |-> r.result, error |-> NoText]
  ELSE [synced |-> FALSE, used_cache |-> cached /\ last_synced_at # NotCompleted,
        last_synced_at |-> last_synced_at, has_result |-> TRUE,
        sync_result |-> r.result,
        error |-> IF r.result.error = NoText THEN ErrUnknown ELSE r.result.error]

\* What one call leaves: the status, the ledger and the cache, the calls of
\* sync_schedule_data it made (sync type and force flag) and the reader
\* calls those made; checked: the lookups of lines 50-106 all returned;
\* outcome: what the triggered sync did ("none" when no sync was triggered).
GuardReturn(status, logs, c, invoked, reads, checked, outcome) ==
  [status |-> status, logs |-> logs, c |-> c, invoked |-> invoked, reads |-> reads,
   checked |-> checked, outcome |-> outcome]

\* Lines 142-227: the sync is triggered once, as an automatic sync that is
\* not forced.
GuardTrigger(logs, c, sched, user_id, t, outcome, cached, last, ledger_raises) ==
  LET r == GuardSync(logs, c, sched, "auto", FALSE, user_id, t, outcome)
  IN  GuardReturn(GuardTriggered(r, cached, last, sched, ledger_raises),
                  r.logs, r.c, <<[sync_type |-> "auto", force |-> FALSE]>>,
                  r.reads, TRUE,
                  IF r.raised THEN "raised"
                  ELSE IF r.result.success THEN "success" ELSE "failure")

\* Lines 48-248.  raises: the lookup that raises ("none", "user", "cache",
\* "ledger", or "ledger_after" for the lookup of line 166).
EnsureDataSynced(u, logs, c, t, user_id, schedule_def_id, max_age, force_check, raises, outcome) ==
  IF raises = "user"
  THEN GuardReturn(ErrorStatus(ErrLookup), logs, c, <<>>, 0, FALSE, "none")
  ELSE IF user_id \notin 1..Len(u)
  THEN GuardReturn(ErrorStatus(ErrUserNotFound), logs, c, <<>>, 0, FALSE, "none")
  ELSE IF GuardSchedule(u[user_id], schedule_def_id) = None
  THEN GuardReturn(ErrorStatus(IF schedule_def_id = None THEN ErrNoActiveSchedule
                               ELSE ErrNotFound),
                   logs, c, <<>>, 0, FALSE, "none")
  ELSE IF raises \in {"cache", "ledger"}
  THEN GuardReturn(ErrorStatus(ErrLookup), logs, c, <<>>, 0, FALSE, "none")
  ELSE
    LET sched == GuardSchedule(u[user_id], schedule_def_id)
        cached == ClearUserSchedule(c, user_id, sched) # c
        last == LastSyncedAt(logs, sched)
    IN  IF NeedsSync(cached, force_check, last, max_age, t)
        THEN GuardTrigger(logs, c, sched, user_id, t, outcome, cached, last,
                          raises = "ledger_after")
        ELSE GuardReturn([synced |-> FALSE, used_cache |-> TRUE, last_synced_at |-> last,
                          has_result |-> FALSE, sync_result |-> NoResult,
                          error |-> NoText],
                         logs, c, <<>>, 0, TRUE, "none")

\* The inputs of the calls: user 3 does not exist, user 2 belongs to a
\* tenant without a schedule.
GuardUsers ==
  <<NewUser("t1", <<"E", "1", "1">>, <<"E", "1", "1">>, "employee"),
    NewUser("t2", <<"E", "1">>, <<"E", "1">>, "employee")>>
GuardUserIds == 1..3
GuardSchedules == {None, "s1", UnknownSchedule}
GuardMaxAges == {3, 7}
GuardRaises == {"none", "user", "cache", "ledger", "ledger_after"}
GuardOutcomes == {"stored", "completed", "failed", "raised"}

\* What happens during a call: a lookup raises (with a sync that completes,
\* for the lookup that follows it), or none does and the sync has an outcome.
GuardBehaviours ==
  {<<r, "completed">> : r \in GuardRaises} \cup {<<"none", o>> : o \in GuardOutcomes}

\* One call of ensure_data_synced; it has returned when the step is over.
\* call holds its arguments, run what it left.
GuardCall ==
  /\ pc = "idle"
  /\ pc' = "returned"
  /\ \E user_id \in GuardUserIds, sched \in GuardSchedules, max_age \in GuardMaxAges,
        force_check \in BOOLEAN, b \in GuardBehaviours :
       LET g == EnsureDataSynced(users, syncLogs, cache, now, user_id, sched, max_age,
                                 force_check, b[1], b[2])
       IN  /\ call' = [user_id |-> user_id, sched |-> sched, max_age |-> max_age,
                       force_check |-> force_check, raises |-> b[1]]
           /\ run' = [status |-> g.status, invoked |-> g.invoked, reads |-> g.reads,
                      checked |-> g.checked, outcome |-> g.outcome,
                      before |-> [NoTables EXCEPT !.cache = cache], logs |-> syncLogs]
           /\ syncLogs' = g.logs
           /\ cache' = g.c
  /\ UNCHANGED <<parseVars, now, readerLoaded, mappings, users, fetchVars>>

\* before, logs: the cache and the ledger when the call started.
NoGuardCall == [user_id |-> 0, sched |-> None, max_age |-> 0, force_check |-> FALSE,
                raises |-> "none"]
NoGuardRun == [status |-> ErrorStatus(NoText), invoked |-> <<>>, reads |-> 0,
               checked |-> FALSE, outcome |-> "none", before |-> NoTables,
               logs |-> <<>>]

\* The ledgers the calls start with: empty, a sync of s1 completed at time
\* 0, a sync of s1 that failed at time 0.
GuardLedgers ==
  {<<>>,
   <<MarkCompleted(NewSyncLog("s1", "auto"), 1, 1, NoText, 0)>>,
   <<MarkCompleted(NewSyncLog("s1", "auto"), 0, 0, ErrSync, 0)>>}

\* A call at any time up to MaxTime, on each ledger; the cache holds a row
\* of user 1 or none.
InitGuard ==
  /\ cell = <<>>
  /\ parsed = NoParsed
  /\ now \in 0..MaxTime
  /\ readerLoaded = TRUE
  /\ syncLogs \in GuardLedgers
  /\ mappings = <<>>
  /\ users = GuardUsers
  /\ cache \in {{}, {OffEntry("t1", "s1", 1, "2025-01-01")}}
  /\ pc = "idle"
  /\ call = NoGuardCall
  /\ attempt = 0
  /\ readerCalls = <<>>
  /\ sleeps = <<>>
  /\ fetched = NoFetch
  /\ run = NoGuardRun

NextGuard == GuardCall

SpecGuard == InitGuard /\ [][NextGuard]_vars

(***************************************************************************)
(* Two calls of sync_schedule_data for schedule s1 at the same time        *)
(***************************************************************************)
\* The cache writer commits at the points of lines 1359-1360 and 1407-1409;
\* what it does between two commits reaches the table as one transaction:
\* the users whose rows are cleared, then the entries merged.
RECURSIVE SplitCommits(_, _, _)
SplitCommits(entries, i, chunk) ==
  IF i > Len(entries) THEN <<chunk>>
  ELSE IF i % CommitEvery = 0 /\ entries[i].shift_type = "OFF"
            /\ entries[i].shift_value = "OFF"
       THEN <<Append(chunk, entries[i])>> \o SplitCommits(entries, i + 1, <<>>)
       ELSE SplitCommits(entries, i + 1, Append(chunk, entries[i]))

\* Lines 1277-1409 for one resolved row of an active user: the first
\* transaction clears the user (and the users in `pending`, cleared by rows
\* that committed nothing).
RowTransactions(uid, entries, pending) ==
  LET chunks == SplitCommits(entries, 1, <<>>)
  IN  [k \in 1..Len(chunks) |->
         [clears |-> IF k = 1 THEN pending \cup {uid} ELSE {}, entries |-> chunks[k]]]

\* Lines 1048-1439: the transactions of a run over the rows that resolve,
\* in order; the commit of lines 1433-1434 carries what is left.
RECURSIVE RunTransactions(_, _, _, _, _, _)
RunTransactions(u, resolved, columns, sched, i, pending) ==
  IF i > Len(resolved)
  THEN <<[clears |-> pending, entries |-> <<>>]>>
  ELSE IF u[resolved[i].user].status # "active"
  THEN RunTransactions(u, resolved, columns, sched, i + 1, pending)
  ELSE LET uid == resolved[i].user
           entries == IF u[uid].tenantID = ScheduleTenant[sched]
                      THEN RowEntries(columns, resolved[i].cells, ScheduleTenant[sched],
                                      sched, uid, WriterParse(resolved[i].id).ok, 1)
                      ELSE <<>>
       IN  IF entries = <<>>
           THEN RunTransactions(u, resolved, columns, sched, i + 1, pending \cup {uid})
           ELSE RowTransactions(uid, entries, pending)
                  \o RunTransactions(u, resolved, columns, sched, i + 1, {})

\* A commit that carries nothing changes nothing.
ChangesCache(tx) == tx.clears # {} \/ tx.entries # <<>>

RECURSIVE ClearUsers(_, _, _)
ClearUsers(c, clears, sched) ==
  IF clears = {} THEN c
  ELSE LET uid == CHOOSE x \in clears : TRUE
       IN  ClearUsers(ClearUserSchedule(c, uid, sched), clears \ {uid}, sched)

ApplyTransactionMutant(c, tx, sched) == MergeAll(c, tx.entries)

\* One transaction of the cache writer, committed.
ApplyTransaction(c, tx, sched) ==
  MergeAll(ClearUsers(c, tx.clears, sched), tx.entries)

\* The cache a run alone leaves, on the tables as they are.
SingleRun(m, u, c, output) == Store(m, u, c, output, "s1", FALSE, FALSE).c

\* The employees of the race, registered and linked by an earlier sync.
RaceRoster == <<CellNameE11, CellBareE111>>
RaceUsers ==
  <<NewUser("t1", <<"E", "1", "1">>, <<"E", "1", "1">>, "employee"),
    NewUser("t1", <<"E", "1", "1", "1">>, <<"E", "1", "1", "1">>, "employee")>>
RaceTables ==
  LET r == Reconcile(<<>>, RaceUsers, RaceRoster, "s1")
  IN  Link(r.m, r.u, "s1")

\* The sheet as two fetches may find it: two dates for both employees,
\* before and after an edit, and eleven dates for the first employee.
RaceOutput(first, second) ==
  [columns |-> <<"2025-01-01", "2025-01-02">>,
   data |-> <<[id |-> CellLowerE11, cells |-> first],
              [id |-> CellBareE111, cells |-> second]>>]
RaceSheets ==
  {[roster |-> RaceRoster, output |-> RaceOutput(<<"N", "">>, <<"D", "E">>)],
   [roster |-> RaceRoster, output |-> RaceOutput(<<"D", "">>, <<"D", "N">>)],
   [roster |-> RaceRoster, output |-> OutputLong]}
RaceCalls ==
  {[sync_type |-> "auto", force |-> FALSE], [sync_type |-> "manual", force |-> TRUE]}
Racers == 1..2

\* Two calls arrive; each will fetch one version of the sheet.  The cache
\* is empty or holds what a sync of the long sheet left; that sync is in
\* the ledger or the ledger is empty.
\* run: before = the cache at the start; left = the transactions each call
\* still has to commit; order = the calls in the order of their commits.
InitRace ==
  /\ cell = <<>>
  /\ parsed = NoParsed
  /\ now = 0
  /\ readerLoaded = TRUE
  /\ syncLogs \in {<<>>, <<MarkCompleted(NewSyncLog("s1", "manual"), 11, 1, NoText, 0)>>}
  /\ mappings = RaceTables.m
  /\ users = RaceTables.u
  /\ cache \in {{}, SingleRun(RaceTables.m, RaceTables.u, {}, OutputLong)}
  /\ pc = [i \in Racers |-> "idle"]
  /\ call \in [Racers -> RaceCalls]
  /\ attempt = 0
  /\ readerCalls = <<>>
  /\ sleeps = <<>>
  /\ fetched \in [Racers -> RaceSheets]
  /\ run = [before |-> cache, left |-> [i \in Racers |-> <<>>],
            logId |-> [i \in Racers |-> 0], order |-> <<>>]

\* Lines 66-93: the freshness gate, then the attempt is created; the sheet
\* is fetched.
RaceStart(i) ==
  /\ pc[i] = "idle"
  /\ IF GateApplies(call[i].sync_type, call[i].force)
          /\ ~ShouldSync(syncLogs, "s1", MinThreshold(call[i].sync_type), now)
     THEN /\ pc' = [pc EXCEPT ![i] = "skipped"]
          /\ UNCHANGED <<syncLogs, run>>
     ELSE /\ pc' = [pc EXCEPT ![i] = "fetch_done"]
          /\ syncLogs' = Append(syncLogs, NewSyncLog("s1", call[i].sync_type))
          /\ run' = [run EXCEPT !.logId[i] = Len(syncLogs) + 1]
  /\ UNCHANGED <<parseVars, now, readerLoaded, mappings, users, cache, call, fetchVars>>

\* Lines 109-117: the reconciler and the linker, each committed.
RaceReconcile(i) ==
  /\ pc[i] = "fetch_done"
  /\ pc' = [pc EXCEPT ![i] = "reconciled"]
  /\ LET r == Reconcile(mappings, users, fetched[i].roster, "s1")
     IN  mappings' = r.m /\ users' = r.u
  /\ UNCHANGED <<parseVars, now, readerLoaded, syncLogs, cache, call, fetchVars, run>>

\* The linker; then the cache writer resolves the rows of its sheet.
RaceLink(i) ==
  /\ pc[i] = "reconciled"
  /\ pc' = [pc EXCEPT ![i] = "writing"]
  /\ LET r == Link(mappings, users, "s1")
     IN  /\ mappings' = r.m
         /\ users' = r.u
         /\ run' = [run EXCEPT
                      !.left[i] =
                        SelectSeq(RunTransactions(
                                    r.u,
                                    Store(r.m, r.u, {}, fetched[i].output, "s1",
                                          FALSE, FALSE).resolved,
                                    fetched[i].output.columns, "s1", 1, {}),
                                  ChangesCache)]
  /\ UNCHANGED <<parseVars, now, readerLoaded, syncLogs, cache, call, fetchVars>>

\* The next commit of the cache writer of call i.
RaceCommit(i) ==
  /\ pc[i] = "writing"
  /\ run.left[i] # <<>>
  /\ cache' = ApplyTransaction(cache, Head(run.left[i]), "s1")
  /\ run' = [run EXCEPT !.left[i] = Tail(@), !.order = Append(@, i)]
  /\ UNCHANGED <<parseVars, now, readerLoaded, syncLogs, mappings, users, pc, call,
                 fetchVars>>

\* Lines 123-145: the attempt is completed and the call returns.
RaceFinish(i) ==
  /\ pc[i] = "writing"
  /\ run.left[i] = <<>>
  /\ pc' = [pc EXCEPT ![i] = "done"]
  /\ LET r == Store(mappings, users, {}, fetched[i].output, "s1", FALSE, FALSE)
     IN  syncLogs' = [syncLogs EXCEPT
                        ![run.logId[i]] = MarkCompleted(@, r.rows, r.users, NoText, now)]
  /\ UNCHANGED <<parseVars, now, readerLoaded, mappings, users, cache, call, fetchVars,
                 run>>

NextRace ==
  \E i \in Racers :
    \/ RaceStart(i)
    \/ RaceReconcile(i)
    \/ RaceLink(i)
    \/ RaceCommit(i)
    \/ RaceFinish(i)

SpecRace == InitRace /\ [][NextRace]_vars

(***************************************************************************)
(* The identifier index of the cache writer, built one source row at a     *)
(* time                                                                    *)
(***************************************************************************)
MaxIndexRows == 2

\* Lines 922-960: the conflict messages one linked mapping appends to
\* mapping_conflicts; idx = the index before the mapping.
RECURSIVE PartConflicts(_, _, _)
PartConflicts(idx, parts, user) ==
  IF parts = <<>> THEN 0
  ELSE LET part_clean == Upper(Strip(Head(parts)))
       IN  IF ~LooksLikeEmployeeId(part_clean)
           THEN PartConflicts(idx, Tail(parts), user)
           ELSE (IF HasKey(idx, part_clean) /\ Lookup(idx, part_clean) # user
                 THEN 1 ELSE 0)
                  + PartConflicts(PutIfAbsent(idx, part_clean, user), Tail(parts), user)

FullConflicts(i1, mapping) ==
  LET full_name_id == Strip(mapping.sheets_name_id)
      i2 == IF full_name_id # <<>> THEN PutIfAbsent(i1, full_name_id, mapping.userID)
            ELSE i1
  IN  (IF HasKey(i1, full_name_id) /\ Lookup(i1, full_name_id) # mapping.userID
       THEN 1 ELSE 0)
        + (IF HasSlash(mapping.sheets_name_id)
           THEN PartConflicts(i2, SplitAll(mapping.sheets_name_id), mapping.userID)
           ELSE 0)

MappingConflicts(idx, mapping) ==
  IF mapping.userID = NoUser THEN 0
  ELSE (IF HasKey(idx, Strip(Upper(mapping.sheets_identifier)))
           /\ Lookup(idx, Strip(Upper(mapping.sheets_identifier))) # mapping.userID
        THEN 1 ELSE 0)
         + (IF mapping.sheets_name_id = <<>> THEN 0
            ELSE FullConflicts(PutIfAbsent(idx, Strip(Upper(mapping.sheets_identifier)),
                                           mapping.userID),
                               mapping))

\* The rows the index is built from: users that share a code through
\* employee_id and username (employee_id is unique among users), mappings
\* of one code linked to different users, in either schedule, active or not.
IndexUserPool ==
  {NewUser("t1", <<"e">>, <<"E", "1", "1">>, "employee"),
   NewUser("t1", <<"E", "1", "1">>, NoText, "employee"),
   NewUser("t1", <<"e", "1", "1">>, NoText, "admin"),
   [NewUser("t1", <<"E", "1", "1", "1">>, <<"E", "1", "1", "1">>, "employee")
      EXCEPT !.status = "inactive"]}
IndexMappingPool(n) ==
  {NewMapping("t1", <<"E", "1", "1">>, CellNameE11, <<"e">>, sched, u) :
     sched \in {"s1", "s2"}, u \in 0..n}
    \cup {NewMapping("t1", <<"E", "1", "1">>, <<"E", "1", "1">>, <<>>, "s1", u) : u \in 0..n}
    \cup {NewMapping("t1", <<"E", "1", "1", "1">>,
                     <<"E", "1", "1", "/", "E", "1", "1", "1">>, <<"E", "1", "1">>,
                     "s1", u) : u \in 0..n}
    \cup {[NewMapping("t1", <<"E", "1", "1">>, CellNameE11, <<"e">>, "s1", u)
             EXCEPT !.is_active = FALSE] : u \in 0..n}
RowsWithoutRepeat(S, n) ==
  UNION {{q \in [1..k -> S] : \A i, j \in 1..k : q[i] = q[j] => i = j} : k \in 0..n}

\* run: idx = identifier_to_user so far; i = the next row of the source;
\* conflicts = the length of mapping_conflicts; set = the index as it was
\* when the source before was done.
InitIndex ==
  /\ cell = <<>>
  /\ parsed = NoParsed
  /\ now = 0
  /\ readerLoaded = TRUE
  /\ syncLogs = <<>>
  /\ users \in RowsWithoutRepeat(IndexUserPool, MaxIndexRows)
  /\ mappings \in RowsWithoutRepeat(IndexMappingPool(Len(users)), 2)
  /\ UniqueUserIDs(mappings)
  /\ cache = {}
  /\ pc = "mappings"
  /\ call = [NoCall EXCEPT !.sched = "s1"]
  /\ attempt = 0
  /\ readerCalls = <<>>
  /\ sleeps = <<>>
  /\ fetched = NoFetch
  /\ run = [idx |-> <<>>, i |-> 1, conflicts |-> 0]

\* Lines 899-903 and 917-961: the next active mapping of the schedule.
IndexNextMapping ==
  /\ pc = "mappings"
  /\ run.i <= Len(mappings)
  /\ run' = IF mappings[run.i].schedule_def_id = call.sched /\ mappings[run.i].is_active
            THEN [idx |-> IndexMapping(run.idx, mappings[run.i]), i |-> run.i + 1,
                  conflicts |-> run.conflicts + MappingConflicts(run.idx, mappings[run.i])]
            ELSE [run EXCEPT !.i = @ + 1]
  /\ UNCHANGED <<parseVars, now, readerLoaded, dbVars, pc, call, fetchVars>>

\* Lines 907-910 and 969-974: the next user, by employee_id.
IndexNextEmployeeId ==
  /\ pc = "employee_ids"
  /\ run.i <= Len(users)
  /\ run' = [run EXCEPT !.idx = IndexUserEmployeeId(@, users[run.i], run.i), !.i = @ + 1]
  /\ UNCHANGED <<parseVars, now, readerLoaded, dbVars, pc, call, fetchVars>>

\* Lines 978-997: the next user, by username.
IndexNextUserName ==
  /\ pc = "usernames"
  /\ run.i <= Len(users)
  /\ run' = [run EXCEPT !.idx = IndexUserName(@, users[run.i], run.i), !.i = @ + 1]
  /\ UNCHANGED <<parseVars, now, readerLoaded, dbVars, pc, call, fetchVars>>

\* The source is exhausted; the next one follows.
IndexNextSource ==
  /\ \/ pc = "mappings" /\ run.i > Len(mappings) /\ pc' = "employee_ids"
     \/ pc = "employee_ids" /\ run.i > Len(users) /\ pc' = "usernames"
     \/ pc = "usernames" /\ run.i > Len(users) /\ pc' = "built"
  /\ run' = [run EXCEPT !.i = 1]
  /\ UNCHANGED <<parseVars, now, readerLoaded, dbVars, call, fetchVars>>

NextIndex ==
  \/ IndexNextMapping
  \/ IndexNextEmployeeId
  \/ IndexNextUserName
  \/ IndexNextSource

SpecIndex == InitIndex /\ [][NextIndex]_vars

(***************************************************************************)
(* The reconciler, one roster row at a time, on rosters with rows that do  *)
(* not parse                                                               *)
(***************************************************************************)
MaxRosterRows == 3

\* Roster cells: two that parse to a code, and two that do not (the part
\* after the first '/' is not a code; no '/' and not a code).
RosterCells == {CellNameE11, CellBareE111, CellTwoSlashes, <<"e">>}

RosterSheets == UNION {[1..n -> RosterCells] : n \in 1..MaxRosterRows}

InitRoster ==
  /\ cell = <<>>
  /\ parsed = NoParsed
  /\ now = 0
  /\ readerLoaded = TRUE
  /\ syncLogs = <<>>
  /\ \E t \in RunTables : mappings = t.mappings /\ users = t.users /\ cache = t.cache
  /\ pc = "rows"
  /\ call = [NoCall EXCEPT !.sched = "s1"]
  /\ attempt = 0
  /\ readerCalls = <<>>
  /\ sleeps = <<>>
  /\ fetched \in {FetchSuccess([roster |-> r, output |-> EmptyOutput]) : r \in RosterSheets}
  /\ run = [m |-> mappings, u |-> users, seen |-> {}, i |-> 1]

\* Lines 439-660: the next row of the roster.
RosterNextRow ==
  /\ pc = "rows"
  /\ run.i <= Len(fetched.sheets.roster)
  /\ LET st == ReconcileRow([m |-> run.m, u |-> run.u, seen |-> run.seen],
                            fetched.sheets.roster[run.i], call.sched)
     IN  run' = [m |-> st.m, u |-> st.u, seen |-> st.seen, i |-> run.i + 1]
  /\ UNCHANGED <<parseVars, now, readerLoaded, dbVars, pc, call, fetchVars>>

\* Lines 662-687: after the last row, the sweep and the commit.
RosterSweep ==
  /\ pc = "rows"
  /\ run.i > Len(fetched.sheets.roster)
  /\ mappings' = DeactivateMissing(run.m, run.seen, call.sched)
  /\ users' = run.u
  /\ pc' = "swept"
  /\ UNCHANGED <<parseVars, now, readerLoaded, syncLogs, cache, call, fetchVars, run>>

NextRoster ==
  \/ RosterNextRow
  \/ RosterSweep

SpecRoster == InitRoster /\ [][NextRoster]_vars

(***************************************************************************)
(* A sync of schedule s1 (tenant t1) when another tenant has a user under  *)
(* a code of the sheets                                                    *)
(***************************************************************************)
OtherTenant == "t2"

\* An employee of the other tenant, auto-created by a sync of that tenant
\* (username = employee_id = the code), and one registered by username only.
UserOtherTenant == NewUser(OtherTenant, <<"E", "1", "1">>, <<"E", "1", "1">>, "employee")
UserOtherTenantByName == NewUser(OtherTenant, <<"E", "1", "1">>, NoText, "employee")

\* The tables before the run: the other tenant's employee alone; the same
\* with the unlinked mapping of the code that an earlier sync of s1 left
\* before the employee was registered; the employee registered by username;
\* an employee of the schedule's own tenant.
TenantTables ==
  {[mappings |-> <<>>, users |-> <<UserOtherTenant>>, cache |-> {}],
   [mappings |-> <<NewMapping("t1", <<"E", "1", "1">>, CellNameE11, <<"e">>, "s1",
                              NoUser)>>,
    users |-> <<UserOtherTenant>>, cache |-> {}],
   [mappings |-> <<>>, users |-> <<UserOtherTenantByName>>, cache |-> {}],
   [mappings |-> <<>>, users |-> <<UserE11>>, cache |-> {}]}

\* The sheets: the code in the roster and the output sheet; the code in the
\* output sheet only.
TenantPayloads ==
  {[roster |-> <<CellNameE11>>, output |-> OutputLowerE11],
   [roster |-> <<>>, output |-> OutputLowerE11]}

InitTenant ==
  /\ cell = <<>>
  /\ parsed = NoParsed
  /\ now = 0
  /\ readerLoaded = TRUE
  /\ \E t \in TenantTables : mappings = t.mappings /\ users = t.users /\ cache = t.cache
  /\ pc = "fetch_done"
  /\ call = [sched |-> "s1", sync_type |-> "manual", force |-> TRUE,
             max_retries |-> DefaultMaxRetries, initial_delay |-> DefaultInitialDelay]
  /\ syncLogs = <<NewSyncLog("s1", "manual")>>
  /\ attempt = 0
  /\ readerCalls = <<>>
  /\ sleeps = <<>>
  /\ fetched \in {FetchSuccess(p) : p \in TenantPayloads}
  /\ run = [NoRun EXCEPT !.logId = 1, !.before = Tables]

NextTenant ==
  \/ ReconcileStep
  \/ LinkStep
  \/ StoreStep
  \/ CompleteStep
  \/ ExceptStep

SpecTenant == InitTenant /\ [][NextTenant]_vars

(***************************************************************************)
(* The forced sync of schedule s1 repeated on the same sheets              *)
(***************************************************************************)
MaxFixRuns == 3

\* An output sheet with the code of the roster and a second code.
OutputSecondCode ==
  [columns |-> <<"2025-01-01">>,
   data |-> <<[id |-> CellLowerE11, cells |-> <<"N">>],
              [id |-> CellBareE111, cells |-> <<"">>]>>]

\* The sheets of every run: the output names the code of the roster; the
\* output names a code the roster lacks; the roster names a code the output
\* lacks; no roster sheet was fetched.
FixPayloads ==
  {[roster |-> <<CellNameE11>>, output |-> OutputLowerE11],
   [roster |-> <<CellNameE11>>, output |-> OutputSecondCode],
   [roster |-> <<CellNameE11, CellBareE111>>, output |-> OutputLowerE11],
   [roster |-> <<>>, output |-> OutputLowerE11]}

InitFix ==
  /\ cell = <<>>
  /\ parsed = NoParsed
  /\ now = 0
  /\ readerLoaded = TRUE
  /\ mappings = <<>>
  /\ users \in {<<>>, <<UserE11>>}
  /\ cache = {}
  /\ pc = "fetch_done"
  /\ call = [sched |-> "s1", sync_type |-> "manual", force |-> TRUE,
             max_retries |-> DefaultMaxRetries, initial_delay |-> DefaultInitialDelay]
  /\ syncLogs = <<NewSyncLog("s1", "manual")>>
  /\ attempt = 0
  /\ readerCalls = <<>>
  /\ sleeps = <<>>
  /\ fetched \in {FetchSuccess(p) : p \in FixPayloads}
  /\ run = [NoRun EXCEPT !.logId = 1, !.before = Tables]

\* The next forced call, for which the reader returns the same sheets.  The
\* failed commits of the earlier calls stay counted in run.rollbacks and
\* run.failed.
FixRunAgain ==
  /\ pc = "done"
  /\ Len(syncLogs) < MaxFixRuns
  /\ syncLogs' = Append(syncLogs, NewSyncLog("s1", "manual"))
  /\ run' = [NoRun EXCEPT !.logId = Len(syncLogs) + 1, !.before = Tables,
                          !.rollbacks = run.rollbacks, !.failed = run.failed]
  /\ pc' = "fetch_done"
  /\ UNCHANGED <<parseVars, now, readerLoaded, mappings, users, cache, call, fetchVars>>

NextFix ==
  \/ ReconcileStep
  \/ LinkStep
  \/ StoreStep
  \/ CompleteStep
  \/ ExceptStep
  \/ FixRunAgain

SpecFix == InitFix /\ [][NextFix]_vars

(***************************************************************************)
(* Two syncs of schedule s1 whose phases interleave.  Each phase reads the *)
(* committed tables into its session (its lookups) and later commits what  *)
(* it decided on them (its creates and updates); the other sync may commit *)
(* in between.                                                             *)
(***************************************************************************)
\* The sheets either sync may fetch.
InterleavePayloads ==
  {[roster |-> <<CellNameE11>>, output |-> OutputLowerE11],
   [roster |-> <<>>, output |-> OutputLowerE11]}

\* The session of a phase: `read` = the rows as the lookups found them,
\* `done` = the rows when the phase has run on them.  The commit updates the
\* rows the phase changed and inserts the rows it added.
CommitRows(committed, read, done) ==
  [n \in 1..Len(committed) |->
     IF n <= Len(read) /\ done[n] # read[n] THEN done[n] ELSE committed[n]]
    \o SubSeq(done, Len(read) + 1, Len(done))

CommitCache(committed, read, done) == (committed \ (read \ done)) \cup (done \ read)

\* ix_users_employee_id, a unique index.
UniqueEmployeeIds(u) ==
  \A i, j \in 1..Len(u) :
    (u[i].employee_id # NoText /\ u[i].employee_id = u[j].employee_id) => i = j

InitInterleave ==
  /\ cell = <<>>
  /\ parsed = NoParsed
  /\ now = 0
  /\ readerLoaded = TRUE
  /\ syncLogs = <<>>
  /\ mappings = <<>>
  /\ users \in {<<>>, <<UserE11>>}
  /\ cache = {}
  /\ pc = [i \in Racers |-> "reconcile"]
  /\ call = [i \in Racers |-> [sync_type |-> "manual", force |-> TRUE]]
  /\ attempt = 0
  /\ readerCalls = <<>>
  /\ sleeps = <<>>
  /\ fetched \in [Racers -> InterleavePayloads]
  /\ run = [read |-> [i \in Racers |-> NoTables], reading |-> [i \in Racers |-> FALSE],
            failed |-> [i \in Racers |-> 0], before |-> [NoTables EXCEPT !.users = users]]

\* The lookups of the phase sync i is in (lines 525-566; 772-796; 899-912
\* and 1151-1197) find the committed rows.
InterleaveRead(i) ==
  /\ pc[i] \in {"reconcile", "link", "store"}
  /\ ~run.reading[i]
  /\ run' = [run EXCEPT !.read[i] = Tables, !.reading[i] = TRUE]
  /\ UNCHANGED <<parseVars, now, readerLoaded, dbVars, pc, call, fetchVars>>

\* The phase of sync i, run on what it read, commits: `done` = [m, u, c].
\* The commit fails on a unique index, the phase rolls back and the sync
\* goes on (lines 683-739, 846-859) or ends (the cache writer, 1416-1439).
InterleaveCommit(i, done, next) ==
  LET m2 == CommitRows(mappings, run.read[i].mappings, done.m)
      u2 == CommitRows(users, run.read[i].users, done.u)
      ok == UniqueUserIDs(m2) /\ UniqueEmployeeIds(u2)
  IN  /\ mappings' = IF ok THEN m2 ELSE mappings
      /\ users' = IF ok THEN u2 ELSE users
      /\ cache' = IF ok THEN CommitCache(cache, run.read[i].cache, done.c) ELSE cache
      /\ run' = [run EXCEPT !.reading[i] = FALSE,
                            !.failed[i] = IF ok THEN @ ELSE @ + 1]
      /\ pc' = [pc EXCEPT ![i] = next]
      /\ UNCHANGED <<parseVars, now, readerLoaded, syncLogs, call, fetchVars>>

\* Lines 568-687: the reconciler creates, updates and commits.
InterleaveReconcile(i) ==
  /\ pc[i] = "reconcile"
  /\ run.reading[i]
  /\ LET r == Reconcile(run.read[i].mappings, run.read[i].users, fetched[i].roster, "s1")
     IN  InterleaveCommit(i, [m |-> r.m, u |-> r.u, c |-> run.read[i].cache], "link")

\* Lines 798-848: the linker creates users, links and commits.
InterleaveLink(i) ==
  /\ pc[i] = "link"
  /\ run.reading[i]
  /\ LET r == Link(run.read[i].mappings, run.read[i].users, "s1")
     IN  InterleaveCommit(i, [m |-> r.m, u |-> r.u, c |-> run.read[i].cache], "store")

\* Lines 1157-1225 and 1262-1414: the cache writer links or creates
\* mappings, writes the cache and commits.
InterleaveStore(i) ==
  /\ pc[i] = "store"
  /\ run.reading[i]
  /\ LET r == Store(run.read[i].mappings, run.read[i].users, run.read[i].cache,
                    fetched[i].output, "s1", FALSE, FALSE)
     IN  InterleaveCommit(i, [m |-> r.m, u |-> r.u, c |-> r.c], "done")

NextInterleave ==
  \E i \in Racers :
    \/ InterleaveRead(i)
    \/ InterleaveReconcile(i)
    \/ InterleaveLink(i)
    \/ InterleaveStore(i)

SpecInterleave == InitInterleave /\ [][NextInterleave]_vars

(***************************************************************************)
(* The two row parsers on every cell of up to MaxLen characters            *)
(***************************************************************************)
InitParse ==
  /\ cell \in StringsUpTo(MaxLen)
  /\ parsed = NoParsed
  /\ now = 0
  /\ readerLoaded = TRUE
  /\ syncLogs = <<>>
  /\ mappings = <<>>
  /\ users = <<>>
  /\ cache = {}
  /\ pc = "parse"
  /\ call = NoCall
  /\ attempt = 0
  /\ readerCalls = <<>>
  /\ sleeps = <<>>
  /\ fetched = NoFetch
  /\ run = NoRun

ParseCell ==
  /\ pc = "parse"
  /\ parsed' = [reconciler |-> ReconcilerParse(cell), writer |-> WriterParse(cell)]
  /\ pc' = "parsed"
  /\ UNCHANGED <<cell, now, readerLoaded, dbVars, call, fetchVars, run>>

NextParse == ParseCell

SpecParse == InitParse /\ [][NextParse]_vars

(***************************************************************************)
(* Vocabulary of the properties, stated without the operators of the model *)
(***************************************************************************)
Least(S) == CHOOSE x \in S : \A y \in S : x <= y
Greatest(S) == CHOOSE x \in S : \A y \in S : x >= y

\* s without its leading and trailing whitespace.
Trim(s) ==
  LET keep == {i \in 1..Len(s) : s[i] # " "}
  IN  IF keep = {} THEN <<>> ELSE SubSeq(s, Least(keep), Greatest(keep))

Uppercase(s) == [i \in 1..Len(s) |-> IF s[i] = "e" THEN "E" ELSE s[i]]

\* s without its control and format characters.
Printable(s) == SelectSeq(s, LAMBDA c : c # "zw")

\* [A-Z][0-9]{2,3}
InCodeGrammar(s) ==
  /\ Len(s) \in {3, 4}
  /\ s[1] = "E"
  /\ \A i \in 2..Len(s) : s[i] = "1"

Slashes(s) == {i \in 1..Len(s) : s[i] = "/"}

\* The error texts that contain '429', 'quota' or 'rate limit' in any case.
RateLimitTexts ==
  {<<"429">>, <<"quota">>, <<"Quota">>, <<"rate limit">>, <<"Rate Limit">>}

HasRateLimitSignature(error) == error \in RateLimitTexts

\* A call of sync_schedule_data for an existing schedule is running, or has
\* returned, with force=true or sync_type='on_demand'.
ForcedCall ==
  /\ pc # "idle"
  /\ call.sched \in {"s1", "s2"}
  /\ call.force \/ call.sync_type = "on_demand"

ReaderNotAvailable == fetched.error \in {ErrServiceUnavailable, ErrLoadFailed}

\* Every reader call so far returned a rate-limit failure.
AlwaysRateLimited ==
  \A i \in 1..Len(readerCalls) :
    readerCalls[i].kind = "fail" /\ HasRateLimitSignature(readerCalls[i].error)

(***************************************************************************)
(* Properties                                                              *)
(***************************************************************************)
\* C1 (as amended): for an existing schedule, every call with force=true or
\* sync_type='on_demand' creates a sync attempt and enters the fetch without
\* consulting the freshness gate, whatever the ledger holds; the reader is
\* called at least once unless no reader implementation is loaded or can be
\* loaded.
C1_ForcedCallFetches ==
  ForcedCall =>
    /\ run.logId # 0
    /\ run.logId = Len(syncLogs)
    /\ syncLogs[run.logId].schedule_def_id = call.sched
    /\ ~run.gate
    /\ pc # "fetch" /\ ~ReaderNotAvailable => Len(readerCalls) >= 1

\* C1 witness: an on_demand call, not forced, has fetched although a sync
\* completed at this very minute.
C1_Witness ==
  /\ ForcedCall
  /\ ~call.force
  /\ pc = "done"
  /\ Len(readerCalls) >= 1
  /\ run.logId = 2
  /\ syncLogs[1].status = "completed"
  /\ syncLogs[1].completed_at = now

\* C1 as stated: every forced or on_demand call for an existing schedule
\* creates a sync attempt and calls the reader at least once.
C1_AsStated ==
  ForcedCall /\ pc = "done" => run.logId # 0 /\ Len(readerCalls) >= 1

\* C2: a non-forced call whose type is not 'on_demand' is skipped
\* (success=true, skipped=true, no attempt, no reader call, no table change)
\* exactly when the most recent completed sync of the schedule is younger
\* than 5 minutes for 'auto', 10 minutes for any other type; otherwise it
\* creates an attempt and proceeds to fetch.
C2_FreshnessGate ==
  [][pc = "idle" /\ pc' # "idle" /\ call'.sched \in {"s1", "s2"}
     /\ ~call'.force /\ call'.sync_type # "on_demand"
     => LET finished == {i \in 1..Len(syncLogs) :
                           /\ syncLogs[i].schedule_def_id = call'.sched
                           /\ syncLogs[i].status = "completed"}
            threshold == IF call'.sync_type = "auto" THEN 5 ELSE 10
        IN  IF finished # {}
               /\ now - syncLogs[Greatest(finished)].completed_at < threshold
            THEN /\ pc' = "done"
                 /\ run'.result.success /\ run'.result.skipped
                 /\ run'.logId = 0
                 /\ syncLogs' = syncLogs
                 /\ readerCalls' = <<>>
                 /\ mappings' = mappings /\ users' = users /\ cache' = cache
            ELSE /\ pc' = "fetch"
                 /\ run'.logId = Len(syncLogs) + 1
                 /\ Len(syncLogs') = Len(syncLogs) + 1]_vars

\* C2 witness: a manual call is skipped 9 minutes after the last completed
\* sync (an auto call would have run).
C2_Witness ==
  /\ pc = "done"
  /\ call.sync_type = "manual" /\ ~call.force
  /\ run.result.skipped
  /\ Len(syncLogs) = 1
  /\ syncLogs[1].status = "completed"
  /\ now - syncLogs[1].completed_at = 9

\* C3 as stated: when sync_schedule_data returns, mark_completed has been
\* called exactly once on the attempt the call created.
C3_MarkedExactlyOnce ==
  pc = "done" /\ run.logId # 0 => run.markCalls = 1

\* C4: a reader that returns a rate-limit failure on every call is called
\* exactly max_retries times; the sleep before call n+1 is
\* initial_delay * 2^n, none follows the last call, and the failure of the
\* last call is returned.
C4_RetryBound ==
  AlwaysRateLimited /\ readerCalls # <<>> =>
    /\ Len(readerCalls) <= call.max_retries
    /\ \A n \in 1..Len(sleeps) : sleeps[n] = call.initial_delay * 2^(n - 1)
    /\ pc = "fetch" => Len(sleeps) = Len(readerCalls)
    /\ pc = "fetch_done" =>
         /\ Len(readerCalls) = call.max_retries
         /\ Len(sleeps) = call.max_retries - 1
         /\ fetched = [success |-> FALSE,
                       error |-> readerCalls[Len(readerCalls)].error,
                       sheets |-> NoSheets]

\* C4 witness: the defaults; three rate-limited calls, sleeps of 2 s and 4 s.
C4_Witness ==
  /\ pc = "fetch_done"
  /\ AlwaysRateLimited
  /\ call.max_retries = 3 /\ call.initial_delay = 2
  /\ Len(readerCalls) = 3
  /\ sleeps = <<2, 4>>

\* C5 as stated: a failed reader call with attempts remaining is retried if
\* and only if its error carries a rate-limit signature, whether the failure
\* was returned or raised.
C5_SameClassification ==
  \A i \in 1..Len(readerCalls) :
    readerCalls[i].kind # "ok" /\ i < call.max_retries =>
      ((i < Len(readerCalls) \/ pc = "fetch")
         <=> HasRateLimitSignature(readerCalls[i].error))

\* C6: when the first reader call succeeds, or fails without a rate-limit
\* signature, the reader is called exactly once, nothing sleeps, and that
\* outcome is returned.
C6_FirstOutcomeReturned ==
  readerCalls # <<>>
  /\ (readerCalls[1].kind = "ok" \/ ~HasRateLimitSignature(readerCalls[1].error))
  => /\ pc = "fetch_done"
     /\ Len(readerCalls) = 1
     /\ sleeps = <<>>
     /\ fetched = IF readerCalls[1].kind = "ok"
                  THEN [success |-> TRUE, error |-> NoText,
                        sheets |-> readerCalls[1].sheets]
                  ELSE [success |-> FALSE, error |-> readerCalls[1].error,
                        sheets |-> NoSheets]

\* C6 witness: the reader raised a timeout on the first of three attempts.
C6_Witness ==
  /\ pc = "fetch_done"
  /\ call.max_retries = 3
  /\ Len(readerCalls) = 1
  /\ readerCalls[1].kind = "raise"
  /\ fetched.error = <<"timeout">>

\* C7: when the fetch ends in failure no phase runs, every EmployeeMapping,
\* User and CachedSchedule row is as before the call, the attempt is
\* completed with the reader's error and 0 rows / 0 users, and the result is
\* success=false with that error.
C7_FetchFailureAborts ==
  pc = "done" /\ run.logId # 0 /\ ~fetched.success =>
    /\ run.phases = <<>>
    /\ mappings = run.before.mappings
    /\ users = run.before.users
    /\ cache = run.before.cache
    /\ fetched.error # NoText
    /\ readerCalls # <<>> => fetched.error = readerCalls[Len(readerCalls)].error
    /\ run.markCalls = 1
    /\ syncLogs[run.logId].status # "started"
    /\ syncLogs[run.logId].completed_at = now
    /\ syncLogs[run.logId].error_message = fetched.error
    /\ syncLogs[run.logId].rows_synced = 0
    /\ syncLogs[run.logId].users_synced = 0
    /\ run.result = [success |-> FALSE, skipped |-> FALSE, error |-> fetched.error,
                     rows_synced |-> 0, users_synced |-> 0]

\* C7 witness: the second sync failed in the reader and left the rows
\* cached by the first.
C7_Witness ==
  /\ pc = "done"
  /\ run.logId = 2
  /\ ~fetched.success
  /\ readerCalls # <<>>
  /\ cache # {}
  /\ cache = run.before.cache
  /\ syncLogs[2].error_message = <<"timeout">>

C9_SplitOnLastSlash ==
  pc = "parsed" /\ Cardinality(Slashes(cell)) > 1 =>
    LET i == Greatest(Slashes(cell))
        code == Uppercase(Trim(SubSeq(cell, i + 1, Len(cell))))
    IN  InCodeGrammar(code) =>
          /\ parsed.reconciler.ok /\ parsed.reconciler.code = code
          /\ parsed.writer.ok /\ parsed.writer.code = code

\* C10 as stated: no CachedSchedule row is written for a sheet row whose
\* code is outside [A-Z][0-9]{2,3}: every cached row belongs to a user whose
\* employee id, which the cache writer sets to the code of the row, matches
\* the grammar.
C10_OnlyGrammarCodesCached ==
  \A r \in cache : InCodeGrammar(users[r.user_id].employee_id)

(***************************************************************************)
(* Claims on the employee mappings                                         *)
(***************************************************************************)
\* Indices of the active mappings of a schedule, and their codes.
ActiveIn(m, sched) == {i \in 1..Len(m) : m[i].is_active /\ m[i].schedule_def_id = sched}
ActiveCodes(m, sched) == {m[i].sheets_identifier : i \in ActiveIn(m, sched)}

\* The codes a roster parses to.
RosterCodes(roster) ==
  {ReconcilerParse(roster[i]).code :
     i \in {j \in 1..Len(roster) : ReconcilerParse(roster[j]).ok}}

\* The reconciler has just run once on a roster sheet and committed.
ReconcileCommitted ==
  /\ pc = "reconciled"
  /\ run.phases = <<"reconcile">>
  /\ run.rollbacks = 0
  /\ fetched.sheets.roster # <<>>

\* The codes that left the roster are inactive; the rows are rows of the
\* table before the run, which only grows.
DepartedInactive(before, after, sched, P, S) ==
  \A i \in 1..Len(after) :
    (after[i].schedule_def_id = sched /\ after[i].sheets_identifier \in P \ S)
      => ~after[i].is_active

C12_ReconcileIdempotent ==
  (pc = "reconciled" /\ run.phases = <<"reconcile", "reconcile">>)
    => /\ Len(mappings) = Len(run.repeat.mappings)
       /\ \A i \in 1..Len(mappings) : mappings[i] = run.repeat.mappings[i]

\* C13: when a committed reconcile finds in the roster the code of a mapping
\* of the schedule that an earlier sync had deactivated, that same row is
\* active again with the user link it had, and it is the only mapping row of
\* its tenant, schedule and code.
C13_Reactivation ==
  ReconcileCommitted =>
    \A i \in 1..Len(run.before.mappings) :
      LET old == run.before.mappings[i]
      IN  (/\ ~old.is_active
           /\ old.schedule_def_id = call.sched
           /\ old.sheets_identifier \in RosterCodes(fetched.sheets.roster))
            => /\ mappings[i].is_active
               /\ mappings[i].userID = old.userID
               /\ \A j \in 1..Len(mappings) :
                    (/\ mappings[j].tenantID = old.tenantID
                     /\ mappings[j].schedule_def_id = old.schedule_def_id
                     /\ mappings[j].sheets_identifier = old.sheets_identifier) => j = i

C15_LinkNeverChanges ==
  [][\A i \in 1..Len(mappings) :
       mappings[i].userID # NoUser
         => /\ i <= Len(mappings')
            /\ mappings'[i].userID = mappings[i].userID]_vars

\* A run is done whose reconciler, linker and cache writer ran over a
\* mapping that was linked when the run started, with its code in the roster.
C15_Witness ==
  /\ pc = "done"
  /\ run.phases = <<"reconcile", "link", "store">>
  /\ run.rollbacks = 0
  /\ \E i \in 1..Len(run.before.mappings) :
       /\ run.before.mappings[i].userID # NoUser
       /\ run.before.mappings[i].is_active
       /\ run.before.mappings[i].schedule_def_id = call.sched
       /\ run.before.mappings[i].sheets_identifier \in RosterCodes(fetched.sheets.roster)
       /\ mappings[i].userID = run.before.mappings[i].userID

(***************************************************************************)
(* Claims on the users and on the cached schedules                         *)
(***************************************************************************)
\* The sync run of the call has returned success.
RunSucceeded == pc = "done" /\ run.result.success

\* The run resolved user i to spreadsheet code `code`: through an active
\* mapping of the schedule linked to the user whose code is in the roster
\* of the run, or through an output row carrying the code.
SyncResolved(i, code) ==
  \/ \E n \in ActiveIn(mappings, call.sched) :
       /\ mappings[n].userID = i
       /\ mappings[n].sheets_identifier = code
       /\ code \in RosterCodes(fetched.sheets.roster)
  \/ \E k \in 1..Len(run.resolved) :
       run.resolved[k].user = i /\ run.resolved[k].code = code /\ code # <<>>

\* C16: after a sync run, every active employee-role user the run resolved
\* to a spreadsheet code has username = employee_id = that code.
C16_EmployeeIdentity ==
  RunSucceeded =>
    \A i \in 1..Len(users) :
      \A code \in RosterCodes(fetched.sheets.roster)
                    \cup {run.resolved[k].code : k \in 1..Len(run.resolved)} :
        (/\ users[i].status = "active"
         /\ users[i].role = "employee"
         /\ SyncResolved(i, code))
          => users[i].username = code /\ users[i].employee_id = code

\* The cache writer has just returned.
WriterReturned == pc = "stored"

\* The cell of a row under column j; a row shorter than the header lacks it.
CellAt(cells, j) == IF j <= Len(cells) THEN cells[j] ELSE ""

\* The cells that stand for a day off.
BlankCells == {"", " ", "null", "none", "NULL", "NONE"}

\* The columns of the output sheet of the run that parse as a date.
DateColumns ==
  {j \in 1..Len(fetched.sheets.output.columns) :
     ParseDate(fetched.sheets.output.columns[j]) # None}

\* The last output row that resolved to user i.
LastRowOf(i) == Greatest({k \in 1..Len(run.resolved) : run.resolved[k].user = i})

\* The user of resolved row k is an active user of the schedule's tenant.
ActiveInTenant(k) ==
  /\ users[run.resolved[k].user].status = "active"
  /\ users[run.resolved[k].user].tenantID = ScheduleTenant[call.sched]

CachedFor(i) == {c \in cache : c.user_id = i /\ c.schedule_def_id = call.sched}

\* C17: after the writer processed the row of an employee that resolves to
\* an active user of the schedule's tenant, the cached rows of (user,
\* schedule) are exactly one per date column of the sheet, each with the
\* row's cell (OFF for a blank cell), and none for any other date.
C17_FullReplace ==
  WriterReturned =>
    \A k \in 1..Len(run.resolved) :
      (k = LastRowOf(run.resolved[k].user) /\ ActiveInTenant(k))
        => /\ {<<c.date, c.shift_value>> : c \in CachedFor(run.resolved[k].user)}
                = {<<ParseDate(fetched.sheets.output.columns[j]),
                     IF CellAt(run.resolved[k].cells, j) \in BlankCells THEN "OFF"
                     ELSE CellAt(run.resolved[k].cells, j)>> : j \in DateColumns}
           /\ Cardinality(CachedFor(run.resolved[k].user)) = Cardinality(DateColumns)

\* Two cached rows of one user, schedule and date.
SameKey(c1, c2) ==
  /\ c1.user_id = c2.user_id
  /\ c1.schedule_def_id = c2.schedule_def_id
  /\ c1.date = c2.date

WriterRepeated ==
  /\ WriterReturned
  /\ run.phases = <<"reconcile", "link", "store", "store">>

\* C19: after _store_schedule_data ran twice in a row on the same output
\* sheet, the CachedSchedule rows are the rows the first run left.
C19_StoreIdempotent ==
  WriterRepeated => cache = run.repeat.cache

\* The second run rewrote the rows of a user the sheet resolves, on a sheet
\* of several date columns.
C19_Witness ==
  /\ WriterRepeated
  /\ Cardinality(DateColumns) > 1
  /\ \E k \in 1..Len(run.resolved) : CachedFor(run.resolved[k].user) # {}

\* The cached rows of user i for the date of column j.
CachedOn(i, j) ==
  {c \in CachedFor(i) : c.date = ParseDate(fetched.sheets.output.columns[j])}

\* Exactly one row, and it is the day off.
OneOffRow(rows) ==
  /\ Cardinality(rows) = 1
  /\ \A c \in rows : c.shift_type = "OFF" /\ c.shift_value = "OFF"

\* No later column of the sheet parses to the date of column j.
LastColumnOfDate(j) ==
  \A j2 \in DateColumns :
    ParseDate(fetched.sheets.output.columns[j2]) = ParseDate(fetched.sheets.output.columns[j])
      => j2 <= j

\* C20: for the last row that resolves to an active user of the schedule's
\* tenant, and every date column that is the last of its date, a cell that
\* is missing, empty, whitespace-only, NULL or NONE in any letter case
\* leaves exactly one cached row for that date, of shift type and shift
\* value OFF.
C20_BlankIsOff ==
  WriterReturned =>
    \A k \in 1..Len(run.resolved) :
      (k = LastRowOf(run.resolved[k].user) /\ ActiveInTenant(k))
        => \A j \in DateColumns :
             (CellAt(run.resolved[k].cells, j) \in BlankCells /\ LastColumnOfDate(j))
               => OneOffRow(CachedOn(run.resolved[k].user, j))

\* The writer returned on a row of an active user that lacks the cell of
\* its last date column and has a lower-case 'none' in another.
C20_Witness ==
  /\ WriterReturned
  /\ \E k \in 1..Len(run.resolved) :
       /\ k = LastRowOf(run.resolved[k].user)
       /\ ActiveInTenant(k)
       /\ \E j1, j2 \in DateColumns :
            /\ LastColumnOfDate(j1) /\ LastColumnOfDate(j2)
            /\ j1 > Len(run.resolved[k].cells)
            /\ j2 <= Len(run.resolved[k].cells)
            /\ run.resolved[k].cells[j2] = "none"
            /\ OneOffRow(CachedOn(run.resolved[k].user, j1))
            /\ OneOffRow(CachedOn(run.resolved[k].user, j2))

\* C20 as stated: for every row that resolved to a user and every date
\* column, a blank cell leaves exactly one OFF row for that date.
C20_AsStated ==
  WriterReturned =>
    \A k \in 1..Len(run.resolved) :
      \A j \in DateColumns :
        CellAt(run.resolved[k].cells, j) \in BlankCells
          => OneOffRow(CachedOn(run.resolved[k].user, j))

(***************************************************************************)
(* Claims on the stored shift value, the phases and the commits            *)
(***************************************************************************)
\* The cell text without its leading and trailing blanks.
TrimCell(v) == IF v = " N " THEN "N" ELSE v

\* Resolved row k is the last row of an active user of the schedule's
\* tenant, and column j is the last column of its date and holds a cell
\* that is not blank.
ShiftCell(k, j) ==
  /\ k = LastRowOf(run.resolved[k].user)
  /\ ActiveInTenant(k)
  /\ LastColumnOfDate(j)
  /\ CellAt(run.resolved[k].cells, j) \notin BlankCells

PhaseFailed ==
  \/ run.rollbacks > 0
  \/ run.raised # NoText /\ run.markCalls = 1

\* C25: when the reconciler, the linker or the cache writer fails, no later
\* phase runs, sync_schedule_data returns success=false and the attempt is
\* recorded in the ledger as failed with the error message.
C25_PhaseFailureAborts ==
  pc = "done" /\ run.logId # 0 /\ fetched.success /\ PhaseFailed =>
    /\ ~run.result.success
    /\ run.result.error # NoText
    /\ syncLogs[run.logId].status = "failed"
    /\ syncLogs[run.logId].error_message = run.result.error
    /\ run.rollbacks > 0 => Len(run.phases) < 3

\* The phases of one attempt, in the order of lines 109-121.
PhaseOrder == <<"reconcile", "link", "store">>

\* Roster row n and output row k of the fetched sheets carry the same code.
SameCode(n, k) ==
  /\ ReconcilerParse(fetched.sheets.roster[n]).ok
  /\ WriterParse(fetched.sheets.output.data[k].id).ok
  /\ Upper(ReconcilerParse(fetched.sheets.roster[n]).code)
       = WriterParse(fetched.sheets.output.data[k].id).code

\* Output row k was resolved by the cache writer to the user of an active
\* mapping of the schedule with the code of the row.
ResolvedToLinked(k) ==
  \E i \in 1..Len(mappings) : \E r \in 1..Len(run.resolved) :
    /\ mappings[i].schedule_def_id = call.sched
    /\ mappings[i].is_active
    /\ Upper(mappings[i].sheets_identifier)
         = WriterParse(fetched.sheets.output.data[k].id).code
    /\ mappings[i].userID # NoUser
    /\ run.resolved[r].id = fetched.sheets.output.data[k].id
    /\ run.resolved[r].user = mappings[i].userID

ReconcileComputed ==
  Reconcile(run.before.mappings, run.before.users, fetched.sheets.roster, call.sched)

\* C27: the reconciler is all-or-nothing: when it returns, either every
\* creation, update and deactivation it computed is persisted, or (after a
\* row-level or commit error) none of them is.
C27_AllOrNothing ==
  pc = "reconciled" /\ run.phases = <<"reconcile">> =>
    \/ mappings = ReconcileComputed.m /\ users = ReconcileComputed.u
    \/ mappings = run.before.mappings /\ users = run.before.users

\* Mapping i of the tenant of the schedule is active and has no user.
Unlinked(i) ==
  /\ mappings[i].tenantID = ScheduleTenant[call.sched]
  /\ mappings[i].is_active
  /\ mappings[i].userID = NoUser

\* Mapping i of table m is linked to an active user of table u whose
\* employee_id or username is the code of the mapping.
LinkedByCode(m, u, i) ==
  /\ m[i].userID # NoUser
  /\ u[m[i].userID].status = "active"
  /\ \/ u[m[i].userID].employee_id = Upper(Strip(m[i].sheets_identifier))
     \/ u[m[i].userID].username = Upper(Strip(m[i].sheets_identifier))

\* The commit of the linker failed for a reason outside the linker: what it
\* computed respects the unique index, and the tables are as before.
LinkerCommitFailed ==
  /\ UniqueUserIDs(Link(mappings, users, call.sched).m)
  /\ mappings' = mappings
  /\ users' = users

\* C28: when the linker has run (and its commit did not fail for a reason
\* outside it), every active mapping of the tenant that had no user is
\* linked to an active user whose employee_id or username is its code, also
\* when two such mappings in different schedules carry the same code.
C28_AllLinked ==
  [][pc = "reconciled" /\ pc' = "linked" =>
       \/ LinkerCommitFailed
       \/ \A i \in 1..Len(mappings) : Unlinked(i) => LinkedByCode(mappings', users', i)]_vars

\* The rows of table c cached for user i under the schedule of the call.
RowsOf(c, i) == {r \in c : r.user_id = i /\ r.schedule_def_id = call.sched}

\* Resolved row k is the only row of the sheet that resolved to its user.
OnlyRowOf(k) ==
  \A k2 \in 1..Len(run.resolved) :
    run.resolved[k2].user = run.resolved[k].user => k2 = k

\* C29: at every commit of the cache writer, the cached rows of each
\* employee of the sheet are either the complete set from before the run or
\* the complete set the run leaves for the current sheet, never a cleared
\* or partially rewritten set.
C29_CommitPerEmployee ==
  pc = "stored" =>
    \A n \in 1..Len(run.commits) : \A k \in 1..Len(run.resolved) :
      OnlyRowOf(k) =>
        \/ RowsOf(run.commits[n], run.resolved[k].user)
             = RowsOf(run.before.cache, run.resolved[k].user)
        \/ RowsOf(run.commits[n], run.resolved[k].user)
             = RowsOf(cache, run.resolved[k].user)

\* C30: when the commit of one employee's cache rows fails, the sync
\* attempt is aborted: sync_schedule_data returns success=false and the
\* error is recorded on the attempt.
C30_CommitErrorAborts ==
  pc = "done" /\ run.failed > 0 =>
    /\ ~run.result.success
    /\ run.result.error # NoText
    /\ syncLogs[run.logId].status = "failed"
    /\ syncLogs[run.logId].error_message = run.result.error

\* The schedule a returned call was about, and what the call found before
\* it triggered anything: a cached row of the user, the last completed sync.
CallSchedule == GuardSchedule(users[call.user_id], call.sched)
CachedBefore ==
  ClearUserSchedule(run.before.cache, call.user_id, CallSchedule) # run.before.cache
LastBefore == LastSyncedAt(run.logs, CallSchedule)
StatusFields ==
  {"synced", "used_cache", "last_synced_at", "has_result", "sync_result", "error"}

\* C23: ensure_data_synced never raises: whatever the input and whichever
\* lookup, orchestrator or reader call fails, the call returns a status
\* object; a call that did not get past its lookups returns an error status
\* without cache and without sync; when the triggered sync fails or raises
\* and the user had cached rows and a completed sync existed, the status has
\* used_cache = true, synced = false, the error and the previous sync time.
C23_StatusAlwaysReturned ==
  pc = "returned" =>
    /\ DOMAIN run.status = StatusFields
    /\ ~run.checked =>
         /\ run.status = ErrorStatus(run.status.error)
         /\ run.status.error # NoText
         /\ run.invoked = <<>>
    /\ call.raises \in {"user", "cache", "ledger"} => ~run.checked
    /\ run.invoked # <<>> /\ (run.outcome \in {"failure", "raised"}
                              \/ call.raises = "ledger_after") =>
         /\ ~run.status.synced
         /\ run.status.error # NoText
         /\ run.status.last_synced_at = LastBefore
         /\ run.status.used_cache = (CachedBefore /\ LastBefore # NotCompleted)
         /\ cache = run.before.cache

\* A triggered sync failed while the user had cached rows and a completed
\* sync: the status falls back on the cache and carries the error.
C23_Witness ==
  /\ pc = "returned"
  /\ run.outcome = "failure"
  /\ CachedBefore
  /\ LastBefore # NotCompleted
  /\ run.status.used_cache
  /\ run.status.error = ErrSync
  /\ run.status.has_result

\* What a returned call made of the orchestrator: at most one call, as an
\* automatic sync that is not forced.
OneNonForcedCall ==
  /\ Len(run.invoked) <= 1
  /\ \A i \in 1..Len(run.invoked) : run.invoked[i] = [sync_type |-> "auto", force |-> FALSE]
\* The call names a user that exists and a schedule that exists.
CallFound ==
  /\ call.user_id \in 1..Len(users)
  /\ GuardSchedule(users[call.user_id], call.sched) # None
\* The conditions of the claim, on what the call found when it started.
NoCachedRow == ~(CallFound /\ CachedBefore)
NoCompletedSync == ~(CallFound /\ LastBefore # NotCompleted)
LastSyncOlder == CallFound /\ LastBefore # NotCompleted /\ now - LastBefore > call.max_age
NoCallMade == run.invoked = <<>> /\ run.reads = 0

\* C24: a call of ensure_data_synced invokes the orchestrator at most once,
\* always with sync type 'auto' and force = false.  A call whose user and
\* schedule exist and whose lookups return invokes it exactly when the user
\* has no cached row of the schedule, force_check is set, no completed sync
\* exists or the last completed sync is older than max_age_minutes; any other
\* call invokes nothing.  With cached rows, a last sync within
\* max_age_minutes and force_check not set, neither the orchestrator nor the
\* reader is called and the ledger and the cache are left as they were.
C24_OneNonForcedSync ==
  pc = "returned" =>
    /\ OneNonForcedCall
    /\ run.checked =>
         /\ CallFound
         /\ (run.invoked # <<>>) <=>
              (NoCachedRow \/ call.force_check \/ NoCompletedSync \/ LastSyncOlder)
    /\ ~run.checked => NoCallMade
    /\ ~NoCachedRow /\ ~NoCompletedSync /\ ~LastSyncOlder /\ ~call.force_check =>
         /\ NoCallMade
         /\ syncLogs = run.logs
         /\ cache = run.before.cache

\* C24 as stated: every call invokes the orchestrator exactly when one of
\* the four conditions holds, and cached rows with a last sync within
\* max_age_minutes mean no orchestrator and no reader call.
C24_AsStated ==
  pc = "returned" =>
    /\ OneNonForcedCall
    /\ (run.invoked # <<>>) <=>
         (NoCachedRow \/ call.force_check \/ NoCompletedSync \/ LastSyncOlder)
    /\ ~NoCachedRow /\ ~NoCompletedSync /\ ~LastSyncOlder => NoCallMade

\* force_check on cached rows and a last sync within max_age_minutes: the
\* orchestrator is invoked once, not forced, and the reader is called.
C24_Witness ==
  /\ pc = "returned"
  /\ call.force_check
  /\ ~NoCachedRow /\ ~NoCompletedSync /\ ~LastSyncOlder
  /\ run.invoked = <<[sync_type |-> "auto", force |-> FALSE]>>
  /\ run.reads = 1

\* Both calls passed or bypassed the gate and have returned.
BothRan == \A i \in Racers : pc[i] = "done"
\* No two cached rows of one user, schedule and date.
NoDuplicateRow(c) ==
  \A r1, r2 \in c :
    r1.user_id = r2.user_id /\ r1.schedule_def_id = r2.schedule_def_id
      /\ r1.date = r2.date => r1 = r2
\* What call i alone would have left.
AloneLeaves(i) == SingleRun(mappings, users, run.before, fetched[i].output)
\* A commit of one call lies between two commits of the other.
CommitsInterleave ==
  \E j, k, l \in 1..Len(run.order) :
    j < k /\ k < l /\ run.order[j] = run.order[l] /\ run.order[k] # run.order[j]

\* C22: two calls for the same schedule whose cache writers interleave at
\* their commits, having fetched the same sheet contents, leave the cache
\* as one call alone leaves it: a redundant rewrite.  Whatever the two calls
\* fetched, no user, schedule and date has two rows, every row left was
\* there before or is a row one of the two calls writes, and both attempts
\* are completed.
C22_RedundantRewrite ==
  /\ NoDuplicateRow(cache)
  /\ BothRan =>
       /\ fetched[1].output = fetched[2].output => cache = AloneLeaves(1)
       /\ \A r \in cache :
            r \in run.before \/ \E i \in Racers : r \in AloneLeaves(i)
       /\ \A i \in Racers : syncLogs[run.logId[i]].status = "completed"

\* C22 as stated: in every interleaving the cache ends as a single call
\* would leave it.
C22_AsStated ==
  BothRan => \E i \in Racers : cache = AloneLeaves(i)

\* The commits of two calls on the same sheet interleaved, over a cache
\* that held other rows, and the cache is what one call leaves.
C22_Witness ==
  /\ BothRan
  /\ CommitsInterleave
  /\ fetched[1].output = fetched[2].output
  /\ run.before # {}
  /\ cache = AloneLeaves(1)
  /\ cache # run.before

(***************************************************************************)
(* Claims on the rows that resolve to no user                              *)
(***************************************************************************)
\* The rows of the output sheet of the run.
OutputRows == fetched.sheets.output.data
\* Output row k resolved to a user in the run.
RowResolved(k) ==
  \E j \in 1..Len(run.resolved) : run.resolved[j].id = OutputRows[k].id
\* A pending mapping of the schedule: active and linked to no user.
PendingFor(n) ==
  /\ mappings[n].schedule_def_id = call.sched
  /\ mappings[n].is_active
  /\ mappings[n].userID = NoUser

\* C31: when the identifier of an output row cannot be parsed into a code
\* (and the row resolves to no user), the cache writer still leaves an
\* active unlinked EmployeeMapping of the schedule for the raw identifier
\* of the row.
C31_PendingOnParseFailure ==
  WriterReturned =>
    \A k \in 1..Len(OutputRows) :
      (OutputRows[k].id # <<>> /\ ~WriterParse(OutputRows[k].id).ok /\ ~RowResolved(k))
        => \E n \in 1..Len(mappings) :
             /\ PendingFor(n)
             /\ \/ mappings[n].sheets_identifier \in {OutputRows[k].id, Trim(OutputRows[k].id)}
                \/ mappings[n].sheets_name_id \in {OutputRows[k].id, Trim(OutputRows[k].id)}

\* The users the output rows of the run resolved to.
ResolvedUsers == {run.resolved[j].user : j \in 1..Len(run.resolved)}
\* Output row k parsed to a code and resolved to no user.
CodeUnresolved(k) ==
  /\ OutputRows[k].id # <<>>
  /\ WriterParse(OutputRows[k].id).ok
  /\ ~RowResolved(k)

\* C32: when the parsed code of an output row resolves to no user, the
\* cache writer clears and writes no cached row for it (the cache changes
\* only in rows of users that other rows resolved to), and after the writer
\* an active unlinked EmployeeMapping of that code exists in the schedule.
C32_UnresolvedRowPending ==
  WriterReturned =>
    \A k \in 1..Len(OutputRows) :
      CodeUnresolved(k) =>
        /\ \E n \in 1..Len(mappings) :
             PendingFor(n)
               /\ mappings[n].sheets_identifier = WriterParse(OutputRows[k].id).code
        /\ \A c \in (cache \ run.before.cache) \cup (run.before.cache \ cache) :
             c.user_id \in ResolvedUsers

(***************************************************************************)
(* Claims on the identifier index                                          *)
(***************************************************************************)
\* A letter followed by digits.
IdLike(s) == Len(s) >= 2 /\ s[1] = "E" /\ \A i \in 2..Len(s) : s[i] = "1"
\* The linked active mappings of the schedule, and the keys mapping n names:
\* its code, its full identifier, and the id-like parts of the latter.
IndexedMappings ==
  {n \in 1..Len(mappings) :
     /\ mappings[n].schedule_def_id = call.sched
     /\ mappings[n].is_active
     /\ mappings[n].userID # NoUser}
MappingNames(n, key) ==
  \/ key = Trim(Uppercase(mappings[n].sheets_identifier))
  \/ key = Trim(mappings[n].sheets_name_id) /\ key # <<>>
  \/ /\ Slashes(mappings[n].sheets_name_id) # {}
     /\ IdLike(key)
     /\ \E j \in 1..Len(SplitAll(mappings[n].sheets_name_id)) :
          key = Uppercase(Trim(SplitAll(mappings[n].sheets_name_id)[j]))
\* Active user i names the key by employee_id; by username.
EmployeeIdNames(i, key) ==
  /\ users[i].status = "active"
  /\ users[i].employee_id # NoText
  /\ key = Uppercase(users[i].employee_id)
UserNameNames(i, key) ==
  /\ users[i].status = "active"
  /\ users[i].username # <<>>
  /\ IF users[i].role = "employee"
     THEN \/ key = Uppercase(Trim(users[i].username))
          \/ users[i].employee_id # NoText /\ key = Uppercase(Trim(users[i].employee_id))
     ELSE key = Uppercase(Trim(users[i].username)) /\ IdLike(key)
\* The user of the first source row that names the key, in the order
\* mappings, employee_ids, usernames; NoUser if none does.
FirstSeen(key) ==
  IF \E n \in IndexedMappings : MappingNames(n, key)
  THEN mappings[Least({n \in IndexedMappings : MappingNames(n, key)})].userID
  ELSE IF \E i \in 1..Len(users) : EmployeeIdNames(i, key)
  THEN Least({i \in 1..Len(users) : EmployeeIdNames(i, key)})
  ELSE IF \E i \in 1..Len(users) : UserNameNames(i, key)
  THEN Least({i \in 1..Len(users) : UserNameNames(i, key)})
  ELSE NoUser
IndexKeys ==
  {run.idx[n][1] : n \in 1..Len(run.idx)}
    \cup {Trim(Uppercase(mappings[n].sheets_identifier)) : n \in IndexedMappings}
    \cup {Uppercase(Trim(users[i].username)) : i \in 1..Len(users)}
    \cup {Uppercase(users[i].employee_id) : i \in 1..Len(users)}
IndexUserOf(key) ==
  IF \E n \in 1..Len(run.idx) : run.idx[n][1] = key
  THEN run.idx[CHOOSE n \in 1..Len(run.idx) : run.idx[n][1] = key][2]
  ELSE NoUser

C33_NeverReplaced ==
  [][/\ Len(run.idx') >= Len(run.idx)
     /\ \A n \in 1..Len(run.idx) : run.idx'[n] = run.idx[n]
     /\ (pc = "mappings" /\ run.i <= Len(mappings) /\ run.i \in IndexedMappings
         /\ \E key \in IndexKeys :
              /\ MappingNames(run.i, key)
              /\ IndexUserOf(key) \notin {NoUser, mappings[run.i].userID})
        => run.conflicts' > run.conflicts]_vars

Roster == fetched.sheets.roster
BadRows == {k \in 1..Len(Roster) : ~ReconcilerParse(Roster[k]).ok}
\* The rows before row i that parse, in their order.
RECURSIVE GoodRowsBefore(_)
GoodRowsBefore(i) ==
  IF i <= 1 THEN <<>>
  ELSE IF i - 1 \in BadRows THEN GoodRowsBefore(i - 1)
  ELSE Append(GoodRowsBefore(i - 1), Roster[i - 1])
\* The tables the reconciler started on: no row of the reconciler removes
\* or reorders rows, run.m and run.u are mappings and users until the sweep.
RosterStart == [m |-> mappings, u |-> users, seen |-> {}]

\* C34: a roster row whose identifier does not parse is skipped without
\* ending the phase: the mappings, the users and the set of seen codes after
\* any number of rows are those the rows that parse give on their own, and
\* the sweep runs on them.
C34_BadRowSkipped ==
  /\ pc = "rows" =>
       LET st == ReconcileRows(RosterStart, GoodRowsBefore(run.i), call.sched)
       IN  run.m = st.m /\ run.u = st.u /\ run.seen = st.seen
  /\ pc = "swept" =>
       /\ run.i = Len(Roster) + 1
       /\ mappings = DeactivateMissing(run.m, run.seen, call.sched)
       /\ users = run.u

\* A row that does not parse was followed by one that does; the phase ended,
\* a mapping was deactivated and the code of the later row has an active
\* mapping.
C34_Witness ==
  /\ pc = "swept"
  /\ \E k \in BadRows : k + 1 \in 1..Len(Roster) /\ k + 1 \notin BadRows
  /\ \E n \in 1..Len(mappings) : ~mappings[n].is_active
  /\ \E n \in 1..Len(mappings) :
       /\ mappings[n].is_active
       /\ mappings[n].sheets_identifier = ReconcilerParse(Roster[Len(Roster)]).code

(***************************************************************************)
(* Claims on the life of EmployeeMapping rows                              *)
(***************************************************************************)
\* C35: no step of a sync deletes an EmployeeMapping row: the table only
\* grows and every row stays at its id.  A row becomes inactive only in the
\* reconciler, for a code of the schedule that the roster does not name, and
\* nothing else of the row changes: it keeps its user link.
C35_MappingsNeverDeleted ==
  [][/\ Len(mappings') >= Len(mappings)
     /\ \A n \in 1..Len(mappings) :
          (mappings[n].is_active /\ ~mappings'[n].is_active)
            => /\ mappings'[n] = [mappings[n] EXCEPT !.is_active = FALSE]
               /\ pc = "fetch_done" /\ pc' = "reconciled"
               /\ mappings[n].schedule_def_id = call.sched
               /\ \A k \in 1..Len(Roster) :
                    ReconcilerParse(Roster[k]).ok
                      => ReconcilerParse(Roster[k]).code # Upper(mappings[n].sheets_identifier)]_vars

\* A run ended in which a linked mapping was deactivated; the row is still
\* there with its user.
C35_Witness ==
  /\ pc = "done"
  /\ \E n \in 1..Len(run.before.mappings) :
       /\ run.before.mappings[n].is_active
       /\ run.before.mappings[n].userID # NoUser
       /\ ~mappings[n].is_active
       /\ mappings[n].userID = run.before.mappings[n].userID

(***************************************************************************)
(* Claims on the end of _fetch_with_retry                                  *)
(***************************************************************************)
\* C36: _fetch_with_retry terminates with a result whatever the reader
\* does or whether it is loaded: the call reaches its return, it has called
\* the reader at most max_retries times, and with max_retries = 0 it returns
\* the failure "Failed to fetch after retries" without a reader call.
C36_FetchTerminates ==
  /\ <>(pc = "fetch_done")
  /\ [](Len(readerCalls) <= call.max_retries)
  /\ []((pc = "fetch_done" /\ call.max_retries = 0)
         => (readerCalls = <<>> /\ fetched = FetchFailure(ErrExhausted)))
  /\ []((pc = "fetch_done" /\ fetched.success)
         => (readerCalls # <<>> /\ readerCalls[Len(readerCalls)].kind = "ok"))

\* The call returned after max_retries reader calls, the last of which
\* raised.
C36_Witness ==
  /\ pc = "fetch_done"
  /\ call.max_retries = MaxRetriesBound
  /\ Len(readerCalls) = call.max_retries
  /\ readerCalls[Len(readerCalls)].kind = "raise"
  /\ ~fetched.success

(***************************************************************************)
(* Claims on tenant isolation                                              *)
(***************************************************************************)
SyncTenant == ScheduleTenant[call.sched]
\* Mapping n is linked by the step: it is new with a user, or its user
\* changed.
LinkedByStep(n) ==
  /\ mappings'[n].userID # NoUser
  /\ n <= Len(mappings) => mappings[n].userID # mappings'[n].userID
\* The tenant mapping n belongs to when the step links it.
TenantWhenLinked(n) ==
  IF n <= Len(mappings) THEN mappings[n].tenantID ELSE mappings'[n].tenantID

\* C37: a sync of a schedule of tenant T never links a mapping of T to a
\* user of another tenant, never changes the tenant id of an existing
\* mapping, and never removes or writes a cached row of a user of another
\* tenant.
C37_TenantIsolation ==
  [][/\ \A n \in 1..Len(mappings') :
          (LinkedByStep(n) /\ TenantWhenLinked(n) = SyncTenant)
            => users'[mappings'[n].userID].tenantID = SyncTenant
     /\ \A n \in 1..Len(mappings) : mappings'[n].tenantID = mappings[n].tenantID
     /\ \A r \in (cache \ cache') \cup (cache' \ cache) :
          users'[r.user_id].tenantID = SyncTenant]_vars

(***************************************************************************)
(* Claims on what the guard reports                                        *)
(***************************************************************************)
\* C38: ensure_data_synced reports synced = true only if the sync it
\* triggered called the reader; a sync that the orchestrator's freshness
\* gate skipped is not reported as a sync.
C38_SyncedOnlyIfFetched ==
  (pc = "returned" /\ run.status.synced)
    => /\ ~run.status.used_cache
       /\ run.reads > 0
       /\ ~run.status.sync_result.skipped

(***************************************************************************)
(* Claims on repeated syncs                                                *)
(***************************************************************************)
\* Every run so far completed and no commit of a phase failed.
AllRunsClean ==
  /\ pc = "done"
  /\ \A n \in 1..Len(syncLogs) : syncLogs[n].status = "completed"
  /\ run.rollbacks = 0
  /\ run.failed = 0

SyncAlone(t, p) ==
  LET r == Reconcile(t.mappings, t.users, p.roster, "s1")
      l == Link(r.m, r.u, "s1")
      w == Store(l.m, l.u, t.cache, p.output, "s1", FALSE, FALSE)
  IN  [mappings |-> w.m, users |-> w.u, cache |-> w.c]
\* The tables after the two syncs ran one after the other, i first.
InOrder(i, j) == SyncAlone(SyncAlone(run.before, fetched[i]), fetched[j])
EqualCodes(a, b) == Upper(Strip(a)) = Upper(Strip(b))

\* C40: when two interleaved syncs of a schedule have ended, no two users
\* carry the same employee code, no two active mappings have the same
\* tenant, schedule and code, and the users and mappings are those of the
\* two syncs run one after the other in some order.
C40_NoDuplicateProvisioning ==
  (\A i \in Racers : pc[i] = "done")
    => /\ \A a, b \in 1..Len(users) :
            (users[a].employee_id # NoText
               /\ EqualCodes(users[a].employee_id, users[b].employee_id)) => a = b
       /\ \A a, b \in 1..Len(mappings) :
            (/\ mappings[a].is_active /\ mappings[b].is_active
             /\ mappings[a].tenantID = mappings[b].tenantID
             /\ mappings[a].schedule_def_id = mappings[b].schedule_def_id
             /\ EqualCodes(mappings[a].sheets_identifier, mappings[b].sheets_identifier))
              => a = b
       /\ \E i, j \in Racers :
            /\ i # j
            /\ mappings = InOrder(i, j).mappings
            /\ users = InOrder(i, j).users

====
